---- MODULE Spec2Model ----
(***************************************************************************)
(* A model of kube-janitor-go: the duration and expiration parsers, the    *)
(* resource filter, the rule engine, the decision function shouldDelete,   *)
(* and the Run / cleanup / worker state machine of the Janitor.            *)
(*                                                                         *)
(* Strings that the program parses are sequences of one-character strings  *)
(* (<<"1","h">> is "1h"), so that parsing is a computation on characters.  *)
(* Instants are whole seconds on the model clock; a Duration is a pair     *)
(* [s, n] of seconds and nanoseconds with 0 <= n < 10^9 (Go's int64        *)
(* nanosecond count, split so that it fits the model checker's integers).        *)
(***************************************************************************)
EXTENDS Integers, Sequences, FiniteSets, Bags, TLC

\* ------------------------------------------------------------------------
\* Bounds of the model
\* ------------------------------------------------------------------------

\* the number of cleanup cycles a periodic run may start
MaxCycles == 2

\* the capacity of WorkQueue, scaled down from the 1000 of janitor.go:108
QueueCap == 2

\* the last instant of the model clock (seconds)
MaxTime == 1

\* the most tokens of a generated duration string
MaxTokens == 2

\* ------------------------------------------------------------------------
\* Characters and durations
\* ------------------------------------------------------------------------

Digits == {"0", "1", "2", "3", "4", "5", "6", "7", "8", "9"}

DigitVal(c) ==
  CASE c = "0" -> 0 [] c = "1" -> 1 [] c = "2" -> 2 [] c = "3" -> 3
    [] c = "4" -> 4 [] c = "5" -> 5 [] c = "6" -> 6 [] c = "7" -> 7
    [] c = "8" -> 8 [] c = "9" -> 9

NsPerSec == 1000 * 1000 * 1000

Dur(sec, ns) == [s |-> sec, n |-> ns]

ZeroDur == Dur(0, 0)

\* a + b on Durations
DurAdd(a, b) ==
  LET ns == a.n + b.n
  IN  IF ns >= NsPerSec THEN Dur(a.s + b.s + 1, ns - NsPerSec)
                        ELSE Dur(a.s + b.s, ns)

\* -a on Durations
DurNeg(a) == IF a.n = 0 THEN Dur(0 - a.s, 0) ELSE Dur(0 - a.s - 1, NsPerSec - a.n)

\* a > b on Durations (Go: age > duration on int64 nanoseconds)
DurGT(a, b) == a.s > b.s \/ (a.s = b.s /\ a.n > b.n)

\* k * unit for a whole number k
DurMulInt(k, unit) ==
  Dur(k * unit.s + ((k * unit.n) \div NsPerSec), (k * unit.n) % NsPerSec)

\* (f / scale) * unit truncated to a nanosecond, for 0 <= f < scale = 10^digits
DurMulFrac(f, scale, unit) ==
  IF unit.s > 0
    THEN Dur((f * unit.s) \div scale, ((f * unit.s) % scale) * (NsPerSec \div scale))
    ELSE Dur(0, (f * unit.n) \div scale)

RECURSIVE Pow10(_)
Pow10(k) == IF k = 0 THEN 1 ELSE 10 * Pow10(k - 1)

\* the position after the run of digits of s that starts at i
RECURSIVE ScanDigits(_, _)
ScanDigits(s, i) ==
  IF i <= Len(s) /\ s[i] \in Digits THEN ScanDigits(s, i + 1) ELSE i

\* the number written by the digits s[i..j-1] (0 when there are none)
RECURSIVE NumVal(_, _, _)
NumVal(s, i, j) ==
  IF j <= i THEN 0 ELSE 10 * NumVal(s, i, j - 1) + DigitVal(s[j - 1])

ParseErr == [err |-> TRUE, d |-> ZeroDur]

ParseOk(d) == [err |-> FALSE, d |-> d]

\* ------------------------------------------------------------------------
\* time.ParseDuration, the platform-native parser tried first
\* ------------------------------------------------------------------------

NativeUnits ==
  { <<"n", "s">>, <<"u", "s">>, <<"µ", "s">>, <<"m", "s">>, <<"s">>, <<"m">>, <<"h">> }

NativeUnitDur(u) ==
  CASE u = <<"n", "s">> -> Dur(0, 1)
    [] u = <<"u", "s">> -> Dur(0, 1000)
    [] u = <<"µ", "s">> -> Dur(0, 1000)
    [] u = <<"m", "s">> -> Dur(0, 1000 * 1000)
    [] u = <<"s">>      -> Dur(1, 0)
    [] u = <<"m">>      -> Dur(60, 0)
    [] u = <<"h">>      -> Dur(3600, 0)

\* the position after the unit that starts at i: up to the next '.' or digit
RECURSIVE ScanUnit(_, _)
ScanUnit(s, i) ==
  IF i <= Len(s) /\ s[i] # "." /\ s[i] \notin Digits THEN ScanUnit(s, i + 1) ELSE i

\* the loop of time.ParseDuration over ([0-9]*(\.[0-9]*)?[a-z]+)+ from position i
RECURSIVE NativeLoop(_, _, _)
NativeLoop(s, i, acc) ==
  IF i > Len(s) THEN ParseOk(acc)
  ELSE IF ~(s[i] = "." \/ s[i] \in Digits) THEN ParseErr
  ELSE
    LET j      == ScanDigits(s, i)
        hasDot == j <= Len(s) /\ s[j] = "."
        k      == IF hasDot THEN ScanDigits(s, j + 1) ELSE j
        pre    == j > i
        post   == hasDot /\ k > j + 1
        e      == ScanUnit(s, k)
        u      == SubSeq(s, k, e - 1)
    IN  IF ~pre /\ ~post THEN ParseErr
        ELSE IF e = k THEN ParseErr
        ELSE IF u \notin NativeUnits THEN ParseErr
        ELSE NativeLoop(s, e,
               DurAdd(acc,
                 DurAdd(DurMulInt(NumVal(s, i, j), NativeUnitDur(u)),
                        IF post
                          THEN DurMulFrac(NumVal(s, j + 1, k), Pow10(k - (j + 1)),
                                          NativeUnitDur(u))
                          ELSE ZeroDur)))

NativeParseDuration(s) ==
  LET signed == Len(s) > 0 /\ s[1] \in {"-", "+"}
      neg    == signed /\ s[1] = "-"
      body   == IF signed THEN SubSeq(s, 2, Len(s)) ELSE s
      r      == NativeLoop(body, 1, ZeroDur)
  IN  IF body = <<"0">> THEN ParseOk(ZeroDur)
      ELSE IF body = <<>> THEN ParseErr
      ELSE IF r.err THEN ParseErr
      ELSE IF neg THEN ParseOk(DurNeg(r.d))
      ELSE r

\* ------------------------------------------------------------------------
\* ParseExtendedDuration: the regex tokenizer and the completeness check
\* ------------------------------------------------------------------------

\* \s of the regex
Spaces == {" ", "\t"}

RECURSIVE ScanSpaces(_, _)
ScanSpaces(s, i) ==
  IF i <= Len(s) /\ s[i] \in Spaces THEN ScanSpaces(s, i + 1) ELSE i

\* whether the characters of word stand in s from position i
HasAt(s, i, word) ==
  i + Len(word) - 1 <= Len(s) /\ SubSeq(s, i, i + Len(word) - 1) = word

\* the alternation (months?|w|d|h|m|s|ms|us|µs|ns) at position i: the first
\* alternative that matches, in the order written (<<>> when none does)
UnitAt(s, i) ==
  IF HasAt(s, i, <<"m", "o", "n", "t", "h", "s">>) THEN <<"m", "o", "n", "t", "h", "s">>
  ELSE IF HasAt(s, i, <<"m", "o", "n", "t", "h">>) THEN <<"m", "o", "n", "t", "h">>
  ELSE IF HasAt(s, i, <<"w">>) THEN <<"w">>
  ELSE IF HasAt(s, i, <<"d">>) THEN <<"d">>
  ELSE IF HasAt(s, i, <<"h">>) THEN <<"h">>
  ELSE IF HasAt(s, i, <<"m">>) THEN <<"m">>
  ELSE IF HasAt(s, i, <<"s">>) THEN <<"s">>
  ELSE IF HasAt(s, i, <<"m", "s">>) THEN <<"m", "s">>
  ELSE IF HasAt(s, i, <<"u", "s">>) THEN <<"u", "s">>
  ELSE IF HasAt(s, i, <<"µ", "s">>) THEN <<"µ", "s">>
  ELSE IF HasAt(s, i, <<"n", "s">>) THEN <<"n", "s">>
  ELSE <<>>

\* the switch on unit of ParseExtendedDuration
UnitDuration(u) ==
  CASE u = <<"m", "o", "n", "t", "h">>      -> Dur(30 * 24 * 3600, 0)
    [] u = <<"m", "o", "n", "t", "h", "s">> -> Dur(30 * 24 * 3600, 0)
    [] u = <<"w">>      -> Dur(7 * 24 * 3600, 0)
    [] u = <<"d">>      -> Dur(24 * 3600, 0)
    [] u = <<"h">>      -> Dur(3600, 0)
    [] u = <<"m">>      -> Dur(60, 0)
    [] u = <<"s">>      -> Dur(1, 0)
    [] u = <<"m", "s">> -> Dur(0, 1000 * 1000)
    [] u = <<"u", "s">> -> Dur(0, 1000)
    [] u = <<"µ", "s">> -> Dur(0, 1000)
    [] u = <<"n", "s">> -> Dur(0, 1)

\* the match of (\d+(?:\.\d+)?)\s*(unit) that starts exactly at position i
MatchAt(s, i) ==
  LET j       == ScanDigits(s, i)
      hasFrac == j + 1 <= Len(s) /\ s[j] = "." /\ s[j + 1] \in Digits
      k       == IF hasFrac THEN ScanDigits(s, j + 1) ELSE j
      w       == ScanSpaces(s, k)
      u       == UnitAt(s, w)
  IN  IF j = i \/ u = <<>>
        THEN [ok |-> FALSE]
        ELSE [ok |-> TRUE, from |-> i, to |-> w + Len(u), int |-> NumVal(s, i, j),
              frac |-> IF hasFrac THEN NumVal(s, j + 1, k) ELSE 0,
              scale |-> IF hasFrac THEN Pow10(k - (j + 1)) ELSE 1, unit |-> u]

\* FindAllStringSubmatch(s, -1): the leftmost match from position i on, then
\* the matches after its end
RECURSIVE FindAll(_, _)
FindAll(s, i) ==
  IF i > Len(s) THEN <<>>
  ELSE LET m == MatchAt(s, i)
       IN  IF m.ok THEN <<m>> \o FindAll(s, m.to) ELSE FindAll(s, i + 1)

\* strings.ReplaceAll(s, " ", "")
RECURSIVE StripBlanks(_)
StripBlanks(s) ==
  IF s = <<>> THEN <<>>
  ELSE IF Head(s) = " " THEN StripBlanks(Tail(s))
  ELSE <<Head(s)>> \o StripBlanks(Tail(s))

\* the concatenation of match[0] over the matches
RECURSIVE Consumed(_, _)
Consumed(s, ms) ==
  IF ms = <<>> THEN <<>>
  ELSE SubSeq(s, Head(ms).from, Head(ms).to - 1) \o Consumed(s, Tail(ms))

\* totalDuration: the sum of value * unit over the matches
RECURSIVE TotalDuration(_)
TotalDuration(ms) ==
  IF ms = <<>> THEN ZeroDur
  ELSE LET m == Head(ms)
       IN  DurAdd(DurAdd(DurMulInt(m.int, UnitDuration(m.unit)),
                         DurMulFrac(m.frac, m.scale, UnitDuration(m.unit))),
                  TotalDuration(Tail(ms)))

\* ParseExtendedDuration without the first attempt with time.ParseDuration
ParseExtendedDurationTokenizerOnly(s) ==
  LET matches == FindAll(s, 1)
  IN  IF matches = <<>> THEN ParseErr
      ELSE IF StripBlanks(s) # StripBlanks(Consumed(s, matches)) THEN ParseErr
      ELSE ParseOk(TotalDuration(matches))

\* ParseExtendedDuration without the check that the matches cover the input
ParseExtendedDurationUnchecked(s) ==
  LET native  == NativeParseDuration(s)
      matches == FindAll(s, 1)
  IN  IF ~native.err THEN native
      ELSE IF matches = <<>> THEN ParseErr
      ELSE ParseOk(TotalDuration(matches))

ParseExtendedDuration(s) ==
  LET native  == NativeParseDuration(s)
      matches == FindAll(s, 1)
  IN  IF ~native.err THEN native
      ELSE IF matches = <<>> THEN ParseErr
      ELSE IF StripBlanks(s) # StripBlanks(Consumed(s, matches)) THEN ParseErr
      ELSE ParseOk(TotalDuration(matches))

\* ------------------------------------------------------------------------
\* parseExpirationTime: four layouts of time.Parse, tried in order
\* ------------------------------------------------------------------------

\* the year whose first instant (midnight UTC, 1 January) is instant 0 of the
\* model clock
EpochYear == 2000 + 25

IsLeap(y) == (y % 4 = 0 /\ y % 100 # 0) \/ y % 400 = 0

DaysIn(m, y) ==
  IF m = 2 THEN (IF IsLeap(y) THEN 29 ELSE 28)
  ELSE IF m \in {4, 6, 9, 11} THEN 30 ELSE 31

\* days from 0000-03-01 to y-m-d in the proleptic Gregorian calendar
DaysFromCivil(y, m, d) ==
  LET yy  == IF m <= 2 THEN y - 1 ELSE y
      era == yy \div 400
      yoe == yy - era * 400
      mp  == IF m > 2 THEN m - 3 ELSE m + 9
      doy == ((153 * mp + 2) \div 5) + d - 1
      doe == yoe * 365 + (yoe \div 4) - (yoe \div 100) + doy
  IN  era * 146097 + doe

\* time.Date(...).Unix() relative to the model epoch
Instant(y, mo, d, h, mi, sec) ==
  (DaysFromCivil(y, mo, d) - DaysFromCivil(EpochYear, 1, 1)) * 86400
    + h * 3600 + mi * 60 + sec

AllDigits(s, i, j) == j <= Len(s) /\ \A x \in i..j : s[x] \in Digits

TimeErr == [err |-> TRUE, t |-> 0]

\* the zone element Z07:00 from position i: Z, or a sign, hh, ':' and mm
ParseZone(s, i) ==
  IF i <= Len(s) /\ s[i] = "Z"
    THEN [err |-> FALSE, off |-> 0, to |-> i + 1]
  ELSE IF i + 5 <= Len(s) /\ s[i] \in {"+", "-"} /\ AllDigits(s, i + 1, i + 2)
          /\ s[i + 3] = ":" /\ AllDigits(s, i + 4, i + 5)
    THEN LET secs == NumVal(s, i + 1, i + 3) * 3600 + NumVal(s, i + 4, i + 6) * 60
         IN  [err |-> FALSE, off |-> IF s[i] = "-" THEN 0 - secs ELSE secs, to |-> i + 6]
  ELSE [err |-> TRUE, off |-> 0, to |-> i]

\* time.Parse(layout, s) for the layout 2006-01-02 followed, as the flags
\* say, by T15:04, by :05 and by Z07:00. The hour takes one or two digits,
\* the other fields are of fixed width; a fraction after the seconds is read
\* and, the clock counting whole seconds, dropped.
ParseLayout(s, withTime, withSec, withZone) ==
  IF ~(AllDigits(s, 1, 4) /\ Len(s) >= 10 /\ s[5] = "-" /\ AllDigits(s, 6, 7)
       /\ s[8] = "-" /\ AllDigits(s, 9, 10))
    THEN TimeErr
  ELSE
    LET y    == NumVal(s, 1, 5)
        mo   == NumVal(s, 6, 8)
        d    == NumVal(s, 9, 11)
        hEnd == IF AllDigits(s, 12, 13) THEN 14 ELSE 13
        okT  == withTime => /\ Len(s) >= 12 /\ s[11] = "T" /\ AllDigits(s, 12, 12)
                            /\ hEnd + 2 <= Len(s) /\ s[hEnd] = ":"
                            /\ AllDigits(s, hEnd + 1, hEnd + 2)
        h    == IF withTime /\ okT THEN NumVal(s, 12, hEnd) ELSE 0
        mi   == IF withTime /\ okT THEN NumVal(s, hEnd + 1, hEnd + 3) ELSE 0
        sAt  == hEnd + 3
        okS  == withSec => /\ okT /\ sAt + 2 <= Len(s) /\ s[sAt] = ":"
                           /\ AllDigits(s, sAt + 1, sAt + 2)
        sec  == IF withSec /\ okS THEN NumVal(s, sAt + 1, sAt + 3) ELSE 0
        fAt  == sAt + 3
        frac == withSec /\ okS /\ fAt + 1 <= Len(s) /\ s[fAt] \in {".", ","}
                /\ s[fAt + 1] \in Digits
        zAt  == IF ~withTime THEN 11
                ELSE IF ~withSec THEN sAt
                ELSE IF frac THEN ScanDigits(s, fAt + 1) ELSE fAt
        z    == IF withZone THEN ParseZone(s, zAt)
                ELSE [err |-> FALSE, off |-> 0, to |-> zAt]
    IN  IF ~okT \/ ~okS \/ z.err THEN TimeErr
        ELSE IF z.to # Len(s) + 1 THEN TimeErr
        ELSE IF mo < 1 \/ mo > 12 \/ d < 1 \/ d > DaysIn(mo, y) THEN TimeErr
        ELSE IF h > 23 \/ mi > 59 \/ sec > 59 THEN TimeErr
        ELSE [err |-> FALSE, t |-> Instant(y, mo, d, h, mi, sec) - z.off]

\* parseExpirationTime without the layout 2006-01-02T15:04
parseExpirationTimeThreeLayouts(expires) ==
  LET f1 == ParseLayout(expires, TRUE, TRUE, TRUE)
      f2 == ParseLayout(expires, TRUE, TRUE, FALSE)
      f4 == ParseLayout(expires, FALSE, FALSE, FALSE)
  IN  IF ~f1.err THEN f1
      ELSE IF ~f2.err THEN f2
      ELSE IF ~f4.err THEN f4
      ELSE TimeErr

parseExpirationTime(expires) ==
  LET f1 == ParseLayout(expires, TRUE, TRUE, TRUE)
      f2 == ParseLayout(expires, TRUE, TRUE, FALSE)
      f3 == ParseLayout(expires, TRUE, FALSE, FALSE)
      f4 == ParseLayout(expires, FALSE, FALSE, FALSE)
  IN  IF ~f1.err THEN f1
      ELSE IF ~f2.err THEN f2
      ELSE IF ~f3.err THEN f3
      ELSE IF ~f4.err THEN f4
      ELSE TimeErr

\* ------------------------------------------------------------------------
\* ResourceFilter
\* ------------------------------------------------------------------------

SeqToSet(q) == { q[i] : i \in 1..Len(q) }

NewResourceFilter(includeResources, excludeResources, includeNamespaces, excludeNamespaces) ==
  [ includeResources     |-> SeqToSet(includeResources),
    excludeResources     |-> SeqToSet(excludeResources),
    includeNamespaces    |-> SeqToSet(includeNamespaces),
    excludeNamespaces    |-> SeqToSet(excludeNamespaces),
    includeAllResources  |-> Len(includeResources) = 0,
    includeAllNamespaces |-> Len(includeNamespaces) = 0 ]

\* the include list looked at before the exclude list
ShouldProcessResourceIncludeFirst(rf, resource) ==
  IF rf.includeAllResources THEN resource \notin rf.excludeResources
  ELSE IF resource \in rf.includeResources THEN TRUE
  ELSE FALSE

ShouldProcessResource(rf, resource) ==
  IF resource \in rf.excludeResources THEN FALSE
  ELSE IF rf.includeAllResources THEN TRUE
  ELSE resource \in rf.includeResources

ShouldProcessNamespace(rf, namespace) ==
  IF namespace \in rf.excludeNamespaces THEN FALSE
  ELSE IF rf.includeAllNamespaces THEN TRUE
  ELSE namespace \in rf.includeNamespaces

\* ------------------------------------------------------------------------
\* The rule engine
\* ------------------------------------------------------------------------

LowerCase ==
  {"a", "b", "c", "d", "e", "f", "g", "h", "i", "j", "k", "l", "m",
   "n", "o", "p", "q", "r", "s", "t", "u", "v", "w", "x", "y", "z"}

\* idRegex ^[a-z][a-z0-9-]*$
idRegexMatch(id) ==
  /\ Len(id) >= 1
  /\ id[1] \in LowerCase
  /\ \A i \in 2..Len(id) : id[i] \in LowerCase \cup Digits \cup {"-"}

\* the rules package's own copy of the duration parser
parseExtendedDuration(s) ==
  LET native  == NativeParseDuration(s)
      matches == FindAll(s, 1)
  IN  IF ~native.err THEN native
      ELSE IF matches = <<>> THEN ParseErr
      ELSE IF StripBlanks(s) # StripBlanks(Consumed(s, matches)) THEN ParseErr
      ELSE ParseOk(TotalDuration(matches))

\* env.Compile / env.Program: an expression of the expression language is one
\* of the forms below; the form "invalid" is source text that does not compile
ExprOps == {"lit", "nameStartsWith", "labelEq", "hasLabel", "name", "labels"}

Compiles(expression) == expression.op \in ExprOps

BoolVal(b) == [t |-> "bool", b |-> b]

EvalErr == [err |-> TRUE, v |-> [t |-> "null"]]

EvalOk(v) == [err |-> FALSE, v |-> v]

\* program.Eval with object bound to the object tree
\*   lit             a literal (true, false, "x", 1, ...)
\*   nameStartsWith  object.metadata.name.startsWith(prefix)
\*   labelEq         object.metadata.labels.<key> == <val>   (no such key: error)
\*   hasLabel        has(object.metadata.labels.<key>)
\*   name            object.metadata.name
\*   labels          object.metadata.labels
Eval(expression, obj) ==
  CASE expression.op = "lit" -> EvalOk(expression.val)
    [] expression.op = "nameStartsWith" ->
         EvalOk(BoolVal(HasAt(obj.name, 1, expression.prefix)))
    [] expression.op = "labelEq" ->
         IF expression.key \in DOMAIN obj.labels
           THEN EvalOk(BoolVal(obj.labels[expression.key] = expression.val))
           ELSE EvalErr
    [] expression.op = "hasLabel" -> EvalOk(BoolVal(expression.key \in DOMAIN obj.labels))
    [] expression.op = "name" -> EvalOk([t |-> "string", len |-> Len(obj.name)])
    [] expression.op = "labels" ->
         EvalOk([t |-> "map", len |-> Cardinality(DOMAIN obj.labels)])

pluralize(kind) ==
  CASE kind = "Pod" -> "pods"
    [] kind = "Service" -> "services"
    [] kind = "Deployment" -> "deployments"
    [] kind = "StatefulSet" -> "statefulsets"
    [] kind = "DaemonSet" -> "daemonsets"
    [] kind = "ReplicaSet" -> "replicasets"
    [] kind = "ConfigMap" -> "configmaps"
    [] kind = "Secret" -> "secrets"
    [] kind = "PersistentVolumeClaim" -> "persistentvolumeclaims"
    [] kind = "PersistentVolume" -> "persistentvolumes"
    [] kind = "Namespace" -> "namespaces"
    [] kind = "Ingress" -> "ingresses"
    [] kind = "NetworkPolicy" -> "networkpolicies"
    [] OTHER -> kind \o "s"

\* resourceMatches returning false from inside its loop: only the first
\* element of resources is compared
resourceMatchesFirstOnly(resources, kind) ==
  /\ resources # <<>>
  /\ resources[1] = "*" \/ resources[1] = kind \/ resources[1] = pluralize(kind)

resourceMatches(resources, kind) ==
  \E i \in 1..Len(resources) :
    resources[i] = "*" \/ resources[i] = kind \/ resources[i] = pluralize(kind)

\* the truthiness switch at the end of evaluateRule
Truthy(v) ==
  CASE v.t = "bool" -> v.b
    [] v.t = "string" -> v.len > 0
    [] v.t = "list" -> v.len > 0
    [] v.t = "map" -> v.len > 0
    [] OTHER -> FALSE

evaluateRule(rule, obj) ==
  IF ~resourceMatches(rule.rule.Resources, obj.kind) THEN FALSE
  ELSE LET out == Eval(rule.rule.Expression, obj)
       IN  IF out.err THEN FALSE ELSE Truthy(out.v)

\* the loop of rules.New handing back, beside the error, the engine built from
\* the rules before the invalid one
RECURSIVE NewLoopPartial(_, _, _)
NewLoopPartial(rules, i, engine) ==
  IF i > Len(rules) THEN [err |-> FALSE, engine |-> <<engine>>]
  ELSE
    LET rule == rules[i]
        ttl  == parseExtendedDuration(rule.TTL)
    IN  IF ~idRegexMatch(rule.ID) \/ ttl.err \/ ~Compiles(rule.Expression)
          THEN [err |-> TRUE, engine |-> IF i > 1 THEN <<engine>> ELSE <<>>]
          ELSE NewLoopPartial(rules, i + 1,
                 [rules |-> Append(engine.rules, [rule |-> rule, ttlDuration |-> ttl.d])])

\* rules.New: the loop over the rules from position i, engine holding the
\* compiled rules so far; any invalid rule returns (nil, err)
RECURSIVE NewLoop(_, _, _)
NewLoop(rules, i, engine) ==
  IF i > Len(rules) THEN [err |-> FALSE, engine |-> <<engine>>]
  ELSE
    LET rule == rules[i]
        ttl  == parseExtendedDuration(rule.TTL)
    IN  IF ~idRegexMatch(rule.ID) THEN [err |-> TRUE, engine |-> <<>>]
        ELSE IF ttl.err THEN [err |-> TRUE, engine |-> <<>>]
        ELSE IF ~Compiles(rule.Expression) THEN [err |-> TRUE, engine |-> <<>>]
        ELSE NewLoop(rules, i + 1,
               [rules |-> Append(engine.rules, [rule |-> rule, ttlDuration |-> ttl.d])])

\* rules.New(rules): (engine, err), the engine as a sequence of length 0 (nil) or 1
New(rules) == NewLoop(rules, 1, [rules |-> <<>>])

\* rules.LoadFromFile: the file read and unmarshalled, then New
LoadFromFile(file) ==
  IF ~file.readable THEN [err |-> TRUE, engine |-> <<>>]
  ELSE New(file.rules)

\* Engine.Evaluate from position i: (rule, ttl), the rule as a sequence of
\* length 0 (nil) or 1
RECURSIVE EvaluateFrom(_, _, _)
EvaluateFrom(e, obj, i) ==
  IF i > Len(e.rules) THEN [rule |-> <<>>, ttl |-> ZeroDur]
  ELSE IF evaluateRule(e.rules[i], obj)
    THEN [rule |-> <<e.rules[i].rule>>, ttl |-> e.rules[i].ttlDuration]
  ELSE EvaluateFrom(e, obj, i + 1)

\* Evaluate with the last matching rule winning
EvaluateLastMatch(e, obj) ==
  LET matching == { i \in 1..Len(e.rules) : evaluateRule(e.rules[i], obj) }
  IN  IF matching = {} THEN [rule |-> <<>>, ttl |-> ZeroDur]
      ELSE LET i == CHOOSE i \in matching : \A k \in matching : k <= i
           IN  [rule |-> <<e.rules[i].rule>>, ttl |-> e.rules[i].ttlDuration]

\* Evaluate giving up at the first rule whose expression fails to evaluate
EvaluateAbortingOnError(e, obj) ==
  LET stops == { i \in 1..Len(e.rules) :
                   /\ resourceMatches(e.rules[i].rule.Resources, obj.kind)
                   /\ \/ Eval(e.rules[i].rule.Expression, obj).err
                      \/ evaluateRule(e.rules[i], obj) }
  IN  IF stops = {} THEN [rule |-> <<>>, ttl |-> ZeroDur]
      ELSE LET i == CHOOSE i \in stops : \A k \in stops : i <= k
           IN  IF Eval(e.rules[i].rule.Expression, obj).err
                 THEN [rule |-> <<>>, ttl |-> ZeroDur]
                 ELSE [rule |-> <<e.rules[i].rule>>, ttl |-> e.rules[i].ttlDuration]

\* Engine.Evaluate
Evaluate(e, obj) == EvaluateFrom(e, obj, 1)

\* ------------------------------------------------------------------------
\* The decision function
\* ------------------------------------------------------------------------

annotationTTL == "janitor/ttl"

annotationExpires == "janitor/expires"

Keep == [delete |-> FALSE, reason |-> <<>>]

Delete(reason) == [delete |-> TRUE, reason |-> reason]

\* time.Since(obj.GetCreationTimestamp().Time) at instant now
Age(obj, now) == Dur(now - obj.creationTimestamp, 0)

\* age >= duration in place of age > duration
TTLExpiredInclusive(age, duration) == ~DurGT(duration, age)

\* shouldDelete: if age > duration
TTLExpired(age, duration) == DurGT(age, duration)

\* now at or after the expiration in place of strictly after it
ExpirationReachedInclusive(now, expirationTime) == now >= expirationTime

\* shouldDelete: if time.Now().After(expirationTime)
ExpirationReached(now, expirationTime) == now > expirationTime

\* the TTL branch with the parse error dropped: a malformed value counts as
\* the zero Duration ParseExtendedDuration returns beside its error
ttlDecisionIgnoringError(obj, now) ==
  LET p == ParseExtendedDuration(obj.annotations[annotationTTL])
  IN  IF TTLExpired(Age(obj, now), p.d)
        THEN Delete(<<"TTL expired", Age(obj, now), p.d>>)
        ELSE Keep

\* the TTL branch returning a reason also when the ttl has not expired
ttlDecisionExplainingKeep(obj, now) ==
  LET p == ParseExtendedDuration(obj.annotations[annotationTTL])
  IN  IF p.err THEN Keep
      ELSE IF TTLExpired(Age(obj, now), p.d)
        THEN Delete(<<"TTL expired", Age(obj, now), p.d>>)
      ELSE [delete |-> FALSE, reason |-> <<"TTL not expired", Age(obj, now), p.d>>]

\* shouldDelete: the branch of the janitor/ttl annotation
ttlDecision(obj, now) ==
  LET p == ParseExtendedDuration(obj.annotations[annotationTTL])
  IN  IF p.err THEN Keep
      ELSE IF TTLExpired(Age(obj, now), p.d)
        THEN Delete(<<"TTL expired", Age(obj, now), p.d>>)
      ELSE Keep

\* shouldDelete: the branch of the janitor/expires annotation
expiresDecision(obj, now) ==
  LET expires == obj.annotations[annotationExpires]
      p       == parseExpirationTime(expires)
  IN  IF p.err THEN Keep
      ELSE IF ExpirationReached(now, p.t)
        THEN Delete(<<"Expiration time reached", expires>>)
      ELSE Keep

\* the branch of the rules going on, past a matching rule whose ttl the age
\* does not exceed, to the following rules
rulesDecisionAnyExpired(ruleEngine, obj, now) ==
  IF ruleEngine # <<>> THEN
    LET expired == { i \in 1..Len(ruleEngine[1].rules) :
                       /\ evaluateRule(ruleEngine[1].rules[i], obj)
                       /\ DurGT(Age(obj, now), ruleEngine[1].rules[i].ttlDuration) }
    IN  IF expired # {}
          THEN LET i == CHOOSE i \in expired : \A k \in expired : i <= k
               IN  Delete(<<"Rule matched", ruleEngine[1].rules[i].rule.ID, Age(obj, now),
                            ruleEngine[1].rules[i].ttlDuration>>)
          ELSE Keep
  ELSE Keep

\* shouldDelete: the branch of the rules; ruleEngine is j.RuleEngine, a
\* sequence of length 0 (nil) or 1
rulesDecision(ruleEngine, obj, now) ==
  IF ruleEngine # <<>> THEN
    LET r == Evaluate(ruleEngine[1], obj)
    IN  IF r.rule # <<>> /\ DurGT(Age(obj, now), r.ttl)
          THEN Delete(<<"Rule matched", r.rule[1].ID, Age(obj, now), r.ttl>>)
          ELSE Keep
  ELSE Keep

\* shouldDelete with the expires annotation looked at before the ttl one
shouldDeleteExpiresFirst(ruleEngine, obj, now) ==
  IF annotationExpires \in DOMAIN obj.annotations THEN expiresDecision(obj, now)
  ELSE IF annotationTTL \in DOMAIN obj.annotations THEN ttlDecision(obj, now)
  ELSE rulesDecision(ruleEngine, obj, now)

\* shouldDelete going on to the rules when an annotation does not say delete
shouldDeleteFallingThrough(ruleEngine, obj, now) ==
  LET a == IF annotationTTL \in DOMAIN obj.annotations THEN ttlDecision(obj, now)
           ELSE IF annotationExpires \in DOMAIN obj.annotations
             THEN expiresDecision(obj, now)
           ELSE Keep
  IN  IF a.delete THEN a ELSE rulesDecision(ruleEngine, obj, now)

\* Janitor.shouldDelete read at clock instant now
shouldDelete(ruleEngine, obj, now) ==
  IF annotationTTL \in DOMAIN obj.annotations THEN ttlDecision(obj, now)
  ELSE IF annotationExpires \in DOMAIN obj.annotations THEN expiresDecision(obj, now)
  ELSE rulesDecision(ruleEngine, obj, now)

\* ------------------------------------------------------------------------
\* Inputs: annotation values, objects, rules, configurations
\* ------------------------------------------------------------------------

\* values of janitor/ttl: "0s", "1s", "2s", "1500ms", "-1s", "1m", "1d", "1 s", "invalid", "2w3x", "", "1d5ms", "5"
TTLStrings ==
  { <<"0", "s">>,
    <<"1", "s">>,
    <<"2", "s">>,
    <<"1", "5", "0", "0", "m", "s">>,
    <<"-", "1", "s">>,
    <<"1", "m">>,
    <<"1", "d">>,
    <<"1", " ", "s">>,
    <<"i", "n", "v", "a", "l", "i", "d">>,
    <<"2", "w", "3", "x">>,
    <<>>,
    <<"1", "d", "5", "m", "s">>,
    <<"5">> }

\* values of janitor/expires: "2025-01-01T00:00:02Z", "2025-01-01T00:00:01", "2025-01-01T00:00", "2025-01-01", "2024-12-31", "2025-01-02", "2025-01-01T01:00:02+01:00", "invalid-date", "2025-13-01", ""
ExpiresStrings ==
  { <<"2", "0", "2", "5", "-", "0", "1", "-", "0", "1", "T", "0", "0", ":", "0", "0", ":", "0", "2", "Z">>,
    <<"2", "0", "2", "5", "-", "0", "1", "-", "0", "1", "T", "0", "0", ":", "0", "0", ":", "0", "1">>,
    <<"2", "0", "2", "5", "-", "0", "1", "-", "0", "1", "T", "0", "0", ":", "0", "0">>,
    <<"2", "0", "2", "5", "-", "0", "1", "-", "0", "1">>,
    <<"2", "0", "2", "4", "-", "1", "2", "-", "3", "1">>,
    <<"2", "0", "2", "5", "-", "0", "1", "-", "0", "2">>,
    <<"2", "0", "2", "5", "-", "0", "1", "-", "0", "1", "T", "0", "1", ":", "0", "0", ":", "0", "2", "+", "0", "1", ":", "0", "0">>,
    <<"i", "n", "v", "a", "l", "i", "d", "-", "d", "a", "t", "e">>,
    <<"2", "0", "2", "5", "-", "1", "3", "-", "0", "1">>,
    <<>> }

EmptyMap == <<>>

\* the annotations map of an object: ttl and expires are sequences of length
\* 0 (annotation absent) or 1 (its value)
Annotations(ttl, expires) ==
  [k \in (IF ttl = <<>> THEN {} ELSE {annotationTTL})
         \cup (IF expires = <<>> THEN {} ELSE {annotationExpires})
     |-> IF k = annotationTTL THEN ttl[1] ELSE expires[1]]

Object(apiVersion, kind, namespace, name, uid, created, annotations, labels) ==
  [ apiVersion |-> apiVersion, kind |-> kind, namespace |-> namespace, name |-> name,
    uid |-> uid, creationTimestamp |-> created, annotations |-> annotations,
    labels |-> labels ]

Rule(id, resources, expression, ttl) ==
  [ID |-> id, Resources |-> resources, Expression |-> expression, TTL |-> ttl]

ExprTrue == [op |-> "lit", val |-> BoolVal(TRUE)]

ExprTmp == [op |-> "labelEq", key |-> "env", val |-> "tmp"]

ExprPr == [op |-> "nameStartsWith", prefix |-> <<"p", "r", "-">>]

ExprInvalid == [op |-> "invalid"]

\* ------------------------------------------------------------------------
\* The platform: discovery, namespaces and objects
\* ------------------------------------------------------------------------

APIResource(name, namespaced, kind, verbs) ==
  [Name |-> name, Namespaced |-> namespaced, Kind |-> kind, Verbs |-> verbs]

\* what ServerPreferredResources returns: (groupVersion, [resourceDescriptor]),
\* the groupVersion as its parts between slashes
ServerResources ==
  << [ GroupVersion |-> <<"v1">>,
       APIResources |-> << APIResource("pods", TRUE, "Pod", {"get", "list", "delete"}),
                           APIResource("componentstatuses", FALSE, "ComponentStatus",
                                       {"get", "list"}),
                           APIResource("nodes", FALSE, "Node", {"get", "list", "delete"}) >> ],
     [ GroupVersion |-> <<"apps", "v1">>,
       APIResources |-> << APIResource("deployments", TRUE, "Deployment",
                                       {"get", "list", "delete"}) >> ],
     [ GroupVersion |-> <<"apps", "v1", "x">>,
       APIResources |-> << APIResource("gadgets", TRUE, "Gadget", {"list", "delete"}) >> ] >>

\* the names CoreV1().Namespaces().List returns
Namespaces == <<"default", "kube-system">>

\* the objects of the cluster at the start, in the order List returns them;
\* u3 is in a namespace FilterPods excludes, u5 of a kind that has no delete verb
ClusterObjects ==
  << Object("v1", "Pod", "default", <<"p", "r", "-", "1">>, "u1", 0,
            Annotations(<< <<"0", "s">> >>, <<>>), EmptyMap),
     Object("v1", "Pod", "default", <<"w", "e", "b">>, "u2", 0,
            Annotations(<<>>, <<>>), [k \in {"env"} |-> "tmp"]),
     Object("v1", "Pod", "kube-system", <<"d", "n", "s">>, "u3", 0,
            Annotations(<< <<"0", "s">> >>, <<>>), EmptyMap),
     Object("v1", "Node", "", <<"n", "1">>, "u4", 0,
            Annotations(<<>>, << <<"2", "0", "2", "5", "-", "0", "1", "-", "0", "1">> >>),
            EmptyMap),
     Object("v1", "ComponentStatus", "", <<"e", "t", "c", "d">>, "u5", 0,
            Annotations(<< <<"0", "s">> >>, <<>>), EmptyMap) >>

Unreadable == [readable |-> FALSE, rules |-> <<>>]

\* the rules files of the file system Run is checked under
RulesFiles ==
  [ path \in {"rules.yaml", "bad.yaml"} |->
      IF path = "rules.yaml" THEN
         [ readable |-> TRUE,
           rules |-> << Rule(<<"t", "m", "p">>, <<"pods">>, ExprTmp, <<"0", "s">>) >> ]
      ELSE
         [ readable |-> TRUE,
           rules |-> << Rule(<<"t", "m", "p">>, <<"pods">>, ExprTmp, <<"1", "s">>),
                        Rule(<<"T", "m", "p">>, <<"*">>, ExprTrue, <<"1", "s">>) >> ] ]

MkConfig(dry, once, f, rulesFile, n) ==
  [ DryRun |-> dry, Once |-> once, IncludeResources |-> f[1], ExcludeResources |-> f[2],
    IncludeNamespaces |-> f[3], ExcludeNamespaces |-> f[4], RulesFile |-> rulesFile,
    MaxWorkers |-> n ]

FilterAll == << <<>>, <<>>, <<>>, <<>> >>

FilterPods == << <<"pods">>, <<>>, <<>>, <<"kube-system">> >>

\* the configurations Run is checked under: once mode with and without
\* filters and rules, periodic mode with the filter that admits the pods of
\* the default namespace, and a rules file that does not load
Configs ==
  { MkConfig(dry, TRUE, f, rf, 2) :
      dry \in BOOLEAN, f \in {FilterAll, FilterPods}, rf \in {"", "rules.yaml"} }
  \cup { MkConfig(dry, FALSE, FilterPods, "rules.yaml", 2) : dry \in BOOLEAN }
  \cup { MkConfig(FALSE, once, FilterAll, rf, 2) :
           once \in BOOLEAN, rf \in {"bad.yaml", "missing.yaml"} }

\* ------------------------------------------------------------------------
\* State
\* ------------------------------------------------------------------------

VARIABLES
  arg,             \* the input of a call made on its own (a function under test)
  ret,             \* the results of the calls made on arg
  files,           \* the file system: the rules files by path
  now,             \* the clock: time.Now()
  Config,          \* Janitor.Config
  RuleEngine,      \* Janitor.RuleEngine, of length 0 (nil) or 1
  ResourceFilter,  \* Janitor.ResourceFilter
  WorkQueue,       \* Janitor.WorkQueue, the items buffered in the channel
  closed,          \* whether close(j.WorkQueue) has been called
  ctxDone,         \* whether ctx is cancelled
  run,             \* where New / Run / cleanup / processResources stand
  wk,              \* where each worker goroutine stands
  live,            \* the uids of the objects the platform holds
  deletes,         \* the Delete calls issued, a bag
  events,          \* the events recorded, a bag
  metrics          \* the counters, a bag of label tuples

vars == << arg, ret, files, now, Config, RuleEngine, ResourceFilter, WorkQueue, closed, ctxDone,
           run, wk, live, deletes, events, metrics >>

pureVars == <<arg, ret, files>>

machineVars == << now, Config, RuleEngine, ResourceFilter, WorkQueue, closed, ctxDone,
                  run, wk, live, deletes, events, metrics >>

Workers == DOMAIN wk

Inc(bag, x) == bag (+) SetToBag({x})

Count(bag, x) == CopiesIn(x, bag)

AllUids == { ClusterObjects[i].uid : i \in 1..Len(ClusterObjects) }

Position(pc) ==
  [pc |-> pc, cycles |-> 0, res |-> <<>>, nss |-> <<>>, items |-> <<>>, marked |-> FALSE,
   err |-> FALSE]

IdleWorker == [pc |-> "idle", item |-> <<>>, reason |-> <<>>]

\* os.ReadFile and yaml.Unmarshal on path
ReadRulesFile(path) == IF path \in DOMAIN files THEN files[path] ELSE Unreadable

\* the machine before janitor.New, under configuration c
MachineInit(c) ==
  /\ now = 0
  /\ Config = c
  /\ RuleEngine = <<>>
  /\ ResourceFilter = NewResourceFilter(<<>>, <<>>, <<>>, <<>>)
  /\ WorkQueue = <<>>
  /\ closed = FALSE
  /\ ctxDone = FALSE
  /\ run = Position("new")
  /\ wk = [w \in 1..c.MaxWorkers |-> [IdleWorker EXCEPT !.pc = "unstarted"]]
  /\ live = AllUids
  /\ deletes = EmptyBag
  /\ events = EmptyBag
  /\ metrics = EmptyBag

Init ==
  /\ arg = <<>>
  /\ ret = <<>>
  /\ files = RulesFiles
  /\ \E c \in Configs : MachineInit(c)

\* ------------------------------------------------------------------------
\* janitor.New and Run
\* ------------------------------------------------------------------------

\* janitor.New: load the rules when a rules file is configured, build the filter
JanitorNew ==
  /\ run.pc = "new"
  /\ LET loaded == IF Config.RulesFile # ""
                     THEN LoadFromFile(ReadRulesFile(Config.RulesFile))
                     ELSE [err |-> FALSE, engine |-> <<>>]
     IN  IF loaded.err
           THEN /\ run' = [run EXCEPT !.pc = "failed", !.err = TRUE]
                /\ UNCHANGED <<RuleEngine, ResourceFilter>>
           ELSE /\ run' = [run EXCEPT !.pc = "start"]
                /\ RuleEngine' = loaded.engine
                /\ ResourceFilter' =
                     NewResourceFilter(Config.IncludeResources, Config.ExcludeResources,
                                       Config.IncludeNamespaces, Config.ExcludeNamespaces)
  /\ UNCHANGED <<pureVars, now, Config, WorkQueue, closed, ctxDone, wk, live, deletes,
                 events, metrics>>

\* Run entering its select after starting the workers: the first cleanup
\* waits for the first tick
RunStartAwaitingTick ==
  /\ run.pc = "start"
  /\ wk' = [w \in Workers |-> IdleWorker]
  /\ run' = [run EXCEPT !.pc = "select"]
  /\ UNCHANGED <<pureVars, now, Config, RuleEngine, ResourceFilter, WorkQueue, closed,
                 ctxDone, live, deletes, events, metrics>>

\* Run: start the workers and enter the first cleanup
RunStart ==
  /\ run.pc = "start"
  /\ wk' = [w \in Workers |-> IdleWorker]
  /\ run' = [run EXCEPT !.pc = "discover", !.cycles = 1]
  /\ UNCHANGED <<pureVars, now, Config, RuleEngine, ResourceFilter, WorkQueue, closed,
                 ctxDone, live, deletes, events, metrics>>

\* schema.ParseGroupVersion on the parts of a groupVersion
ParseGroupVersion(gv) ==
  IF Len(gv) = 0 THEN [err |-> FALSE, Group |-> "", Version |-> ""]
  ELSE IF Len(gv) = 1 THEN [err |-> FALSE, Group |-> "", Version |-> gv[1]]
  ELSE IF Len(gv) = 2 THEN [err |-> FALSE, Group |-> gv[1], Version |-> gv[2]]
  ELSE [err |-> TRUE, Group |-> "", Version |-> ""]

\* the (gvr, resource) pairs the two loops of cleanup visit, in order: the
\* lists whose groupVersion does not parse are skipped
RECURSIVE Descriptors(_)
Descriptors(resources) ==
  IF resources = <<>> THEN <<>>
  ELSE LET gv == ParseGroupVersion(Head(resources).GroupVersion)
           rs == Head(resources).APIResources
       IN  (IF gv.err THEN <<>>
            ELSE [i \in 1..Len(rs) |->
                    [ gvr |-> [Group |-> gv.Group, Version |-> gv.Version,
                               Resource |-> rs[i].Name],
                      resource |-> rs[i] ]])
           \o Descriptors(Tail(resources))

\* the resource loop of cleanup from the descriptors res on: the ones that
\* cannot be listed or deleted, or that the filter rejects, are skipped
RECURSIVE ToResource(_, _, _)
ToResource(rf, r, res) ==
  IF res = <<>>
    THEN [r EXCEPT !.pc = "cleanupDone", !.err = FALSE, !.res = <<>>, !.nss = <<>>,
                   !.items = <<>>]
  ELSE IF "list" \notin Head(res).resource.Verbs \/ "delete" \notin Head(res).resource.Verbs
    THEN ToResource(rf, r, Tail(res))
  ELSE IF ~ShouldProcessResource(rf, Head(res).resource.Name)
    THEN ToResource(rf, r, Tail(res))
  ELSE IF Head(res).resource.Namespaced
    THEN [r EXCEPT !.pc = "namespaces", !.res = res, !.nss = <<>>, !.items = <<>>]
  ELSE [r EXCEPT !.pc = "list", !.res = res, !.nss = <<>>, !.items = <<>>]

\* the namespace loop of cleanup without the namespace filter
ToNamespaceUnfiltered(rf, r, nss) ==
  IF nss = <<>> THEN ToResource(rf, r, Tail(r.res))
  ELSE [r EXCEPT !.pc = "list", !.nss = nss, !.items = <<>>]

\* the namespace loop of cleanup from the namespaces nss on
RECURSIVE ToNamespace(_, _, _)
ToNamespace(rf, r, nss) ==
  IF nss = <<>> THEN ToResource(rf, r, Tail(r.res))
  ELSE IF ~ShouldProcessNamespace(rf, Head(nss)) THEN ToNamespace(rf, r, Tail(nss))
  ELSE [r EXCEPT !.pc = "list", !.nss = nss, !.items = <<>>]

\* where cleanup goes when processResources has returned
AfterList(rf, r) ==
  IF Head(r.res).resource.Namespaced
    THEN ToNamespace(rf, r, Tail(r.nss))
    ELSE ToResource(rf, r, Tail(r.res))

\* the outcomes of a platform call that takes ctx
CallOutcomes == IF ctxDone THEN {"canceled"} ELSE {"ok", "err"}

\* cleanup: DiscoveryClient.ServerPreferredResources()
Discover ==
  /\ run.pc = "discover"
  /\ \E outcome \in {"ok", "err"} :
       run' = IF outcome = "ok"
                THEN ToResource(ResourceFilter, run, Descriptors(ServerResources))
                ELSE [run EXCEPT !.pc = "cleanupDone", !.err = TRUE]
  /\ UNCHANGED <<pureVars, now, Config, RuleEngine, ResourceFilter, WorkQueue, closed,
                 ctxDone, wk, live, deletes, events, metrics>>

\* a failure of getNamespaces that ends the cycle with an error
ListNamespacesAborting ==
  /\ run.pc = "namespaces"
  /\ \E outcome \in CallOutcomes :
       IF outcome = "ok"
         THEN /\ run' = ToNamespace(ResourceFilter, run, Namespaces)
              /\ UNCHANGED metrics
         ELSE /\ run' = [run EXCEPT !.pc = "cleanupDone", !.err = TRUE]
              /\ metrics' = Inc(metrics, <<"errors", "list_namespaces">>)
  /\ UNCHANGED <<pureVars, now, Config, RuleEngine, ResourceFilter, WorkQueue, closed,
                 ctxDone, wk, live, deletes, events>>

\* cleanup: getNamespaces for a namespaced resource
ListNamespaces ==
  /\ run.pc = "namespaces"
  /\ \E outcome \in CallOutcomes :
       IF outcome = "ok"
         THEN /\ run' = ToNamespace(ResourceFilter, run, Namespaces)
              /\ UNCHANGED metrics
         ELSE /\ run' = ToResource(ResourceFilter, run, Tail(run.res))
              /\ metrics' = Inc(metrics, <<"errors", "list_namespaces">>)
  /\ UNCHANGED <<pureVars, now, Config, RuleEngine, ResourceFilter, WorkQueue, closed,
                 ctxDone, wk, live, deletes, events>>

\* the namespace processResources is called with
ListNamespace(r) == IF Head(r.res).resource.Namespaced THEN Head(r.nss) ELSE ""

\* what List returns for a resource and a namespace: the live objects of it
Listed(resource, namespace) ==
  SelectSeq(ClusterObjects,
            LAMBDA o : o.uid \in live /\ o.kind = resource.Kind /\ o.namespace = namespace)

\* a List failure that ends the cycle with an error
ListObjectsAborting ==
  /\ run.pc = "list"
  /\ \E outcome \in CallOutcomes :
       IF outcome = "ok"
         THEN LET items == Listed(Head(run.res).resource, ListNamespace(run))
              IN  /\ run' = IF items = <<>> THEN AfterList(ResourceFilter, run)
                            ELSE [run EXCEPT !.pc = "send", !.items = items]
                  /\ UNCHANGED metrics
         ELSE /\ run' = [run EXCEPT !.pc = "cleanupDone", !.err = TRUE]
              /\ metrics' = Inc(metrics, <<"errors", "process_resources">>)
  /\ UNCHANGED <<pureVars, now, Config, RuleEngine, ResourceFilter, WorkQueue, closed,
                 ctxDone, wk, live, deletes, events>>

\* processResources: the List call
ListObjects ==
  /\ run.pc = "list"
  /\ \E outcome \in CallOutcomes :
       IF outcome = "ok"
         THEN LET items == Listed(Head(run.res).resource, ListNamespace(run))
              IN  /\ run' = IF items = <<>> THEN AfterList(ResourceFilter, run)
                            ELSE [run EXCEPT !.pc = "send", !.items = items]
                  /\ UNCHANGED metrics
         ELSE /\ run' = AfterList(ResourceFilter, run)
              /\ metrics' = Inc(metrics, <<"errors", "process_resources">>)
  /\ UNCHANGED <<pureVars, now, Config, RuleEngine, ResourceFilter, WorkQueue, closed,
                 ctxDone, wk, live, deletes, events>>

\* processResources: metrics.ResourcesEvaluated...Inc() for the next item
MarkEvaluated ==
  /\ run.pc = "send"
  /\ ~run.marked
  /\ metrics' = Inc(metrics, <<"resources_evaluated", Head(run.res).gvr.Resource,
                               ListNamespace(run)>>)
  /\ run' = [run EXCEPT !.marked = TRUE]
  /\ UNCHANGED <<pureVars, now, Config, RuleEngine, ResourceFilter, WorkQueue, closed,
                 ctxDone, wk, live, deletes, events>>

WorkItem(gvr, namespace, obj) ==
  [Resource |-> gvr, Namespace |-> namespace, Name |-> obj.name, Obj |-> obj]

\* processResources: j.WorkQueue <- WorkItem{...}, which blocks while the queue is full
Send ==
  /\ run.pc = "send"
  /\ run.marked
  /\ ~closed
  /\ Len(WorkQueue) < QueueCap
  /\ WorkQueue' = Append(WorkQueue,
                         WorkItem(Head(run.res).gvr, ListNamespace(run), Head(run.items)))
  /\ run' = IF Tail(run.items) = <<>>
              THEN [AfterList(ResourceFilter, run) EXCEPT !.marked = FALSE]
              ELSE [run EXCEPT !.items = Tail(run.items), !.marked = FALSE]
  /\ UNCHANGED <<pureVars, now, Config, RuleEngine, ResourceFilter, closed, ctxDone, wk,
                 live, deletes, events, metrics>>

\* Run returning the error of cleanup in periodic mode as it does in once mode
RunAfterCleanupReturning ==
  /\ run.pc = "cleanupDone"
  /\ metrics' = IF run.err THEN Inc(metrics, <<"errors", "cleanup">>) ELSE metrics
  /\ IF run.err
       THEN /\ run' = [run EXCEPT !.pc = "returned"]
            /\ UNCHANGED closed
       ELSE IF Config.Once
         THEN /\ run' = [run EXCEPT !.pc = "wait"]
              /\ closed' = TRUE
         ELSE /\ run' = [run EXCEPT !.pc = "select", !.err = FALSE]
              /\ UNCHANGED closed
  /\ UNCHANGED <<pureVars, now, Config, RuleEngine, ResourceFilter, WorkQueue, ctxDone, wk,
                 live, deletes, events>>

\* Run: what follows the return of cleanup
RunAfterCleanup ==
  /\ run.pc = "cleanupDone"
  /\ metrics' = IF run.err THEN Inc(metrics, <<"errors", "cleanup">>) ELSE metrics
  /\ IF Config.Once
       THEN IF run.err
              THEN /\ run' = [run EXCEPT !.pc = "returned"]
                   /\ UNCHANGED closed
              ELSE /\ run' = [run EXCEPT !.pc = "wait"]
                   /\ closed' = TRUE
       ELSE /\ run' = [run EXCEPT !.pc = "select", !.err = FALSE]
            /\ UNCHANGED closed
  /\ UNCHANGED <<pureVars, now, Config, RuleEngine, ResourceFilter, WorkQueue, ctxDone, wk,
                 live, deletes, events>>

\* Run: case <-ticker.C
TickerFire ==
  /\ run.pc = "select"
  /\ run.cycles < MaxCycles
  /\ run' = [run EXCEPT !.pc = "discover", !.cycles = run.cycles + 1]
  /\ UNCHANGED <<pureVars, now, Config, RuleEngine, ResourceFilter, WorkQueue, closed,
                 ctxDone, wk, live, deletes, events, metrics>>

\* the queue closed as soon as ctx is cancelled, also while cleanup runs
RunCtxDoneDuringCleanup ==
  /\ run.pc \in {"select", "list", "send"}
  /\ ctxDone
  /\ ~closed
  /\ closed' = TRUE
  /\ run' = IF run.pc = "select" THEN [run EXCEPT !.pc = "wait"] ELSE run
  /\ UNCHANGED <<pureVars, now, Config, RuleEngine, ResourceFilter, WorkQueue, ctxDone, wk,
                 live, deletes, events, metrics>>

\* Run: case <-ctx.Done()
RunCtxDone ==
  /\ run.pc = "select"
  /\ ctxDone
  /\ closed' = TRUE
  /\ run' = [run EXCEPT !.pc = "wait"]
  /\ UNCHANGED <<pureVars, now, Config, RuleEngine, ResourceFilter, WorkQueue, ctxDone, wk,
                 live, deletes, events, metrics>>

\* Run: j.wg.Wait() returns when every worker has exited
RunWait ==
  /\ run.pc = "wait"
  /\ \A w \in Workers : wk[w].pc = "exited"
  /\ run' = [run EXCEPT !.pc = "returned"]
  /\ UNCHANGED <<pureVars, now, Config, RuleEngine, ResourceFilter, WorkQueue, closed,
                 ctxDone, wk, live, deletes, events, metrics>>

Running == run.pc \notin {"new", "failed", "start", "returned"}

\* the environment cancels ctx
Cancel ==
  /\ Running
  /\ ~ctxDone
  /\ ctxDone' = TRUE
  /\ UNCHANGED <<pureVars, now, Config, RuleEngine, ResourceFilter, WorkQueue, closed, run,
                 wk, live, deletes, events, metrics>>

\* the clock advances
Tick ==
  /\ Running
  /\ now < MaxTime
  /\ now' = now + 1
  /\ UNCHANGED <<pureVars, Config, RuleEngine, ResourceFilter, WorkQueue, closed, ctxDone,
                 run, wk, live, deletes, events, metrics>>

\* ------------------------------------------------------------------------
\* The workers
\* ------------------------------------------------------------------------

\* the ObjectReference processItem builds for its events
ObjectReference(item) ==
  [ APIVersion |-> item.Resource.Group \o "/" \o item.Resource.Version,
    Kind |-> item.Obj.kind, Namespace |-> item.Namespace, Name |-> item.Name,
    UID |-> item.Obj.uid ]

Event(item, type, reason, why) ==
  [ref |-> ObjectReference(item), type |-> type, reason |-> reason, why |-> why]

\* DeleteCall with the namespace dropped, as if every kind were cluster-scoped
DeleteCallClusterScoped(item) ==
  [Resource |-> item.Resource, Namespace |-> "", Name |-> item.Name]

\* the Delete call processItem issues: Resource(gvr).Namespace(ns).Delete(ctx, name)
DeleteCall(item) ==
  [Resource |-> item.Resource, Namespace |-> item.Namespace, Name |-> item.Name]

\* processItem without the dry-run branch
processItemIgnoringDryRun(w, item) ==
  LET d == shouldDelete(RuleEngine, item.Obj, now)
  IN  IF ~d.delete
        THEN UNCHANGED <<wk, deletes, events>>
      ELSE /\ deletes' = Inc(deletes, [Resource |-> item.Resource,
                                       Namespace |-> item.Namespace, Name |-> item.Name])
           /\ wk' = [wk EXCEPT ![w] = [pc |-> "deleting", item |-> <<item>>,
                                       reason |-> d.reason]]
           /\ UNCHANGED events

\* processItem up to the Delete call: the decision, the dry-run event, the
\* Delete call issued by worker w
processItem(w, item) ==
  LET d == shouldDelete(RuleEngine, item.Obj, now)
  IN  IF ~d.delete
        THEN UNCHANGED <<wk, deletes, events>>
      ELSE IF Config.DryRun
        THEN /\ events' = Inc(events, Event(item, "Normal", "DryRunDeletion", d.reason))
             /\ UNCHANGED <<wk, deletes>>
      ELSE /\ deletes' = Inc(deletes, DeleteCall(item))
           /\ wk' = [wk EXCEPT ![w] = [pc |-> "deleting", item |-> <<item>>,
                                       reason |-> d.reason]]
           /\ UNCHANGED events

\* a receive that leaves the item on the queue for the next receive
WorkerRecvPeek(w) ==
  /\ wk[w].pc = "idle"
  /\ WorkQueue # <<>>
  /\ processItem(w, Head(WorkQueue))
  /\ UNCHANGED <<pureVars, now, Config, RuleEngine, ResourceFilter, WorkQueue, closed,
                 ctxDone, run, live, metrics>>

\* a receive that takes the newest item of the queue, as from a stack
WorkerRecvNewest(w) ==
  /\ wk[w].pc = "idle"
  /\ WorkQueue # <<>>
  /\ WorkQueue' = SubSeq(WorkQueue, 1, Len(WorkQueue) - 1)
  /\ processItem(w, WorkQueue[Len(WorkQueue)])
  /\ UNCHANGED <<pureVars, now, Config, RuleEngine, ResourceFilter, closed, ctxDone, run,
                 live, metrics>>

\* worker: case item, ok := <-j.WorkQueue with ok true, then processItem
WorkerRecv(w) ==
  /\ wk[w].pc = "idle"
  /\ WorkQueue # <<>>
  /\ WorkQueue' = Tail(WorkQueue)
  /\ processItem(w, Head(WorkQueue))
  /\ UNCHANGED <<pureVars, now, Config, RuleEngine, ResourceFilter, closed, ctxDone, run,
                 live, metrics>>

\* the outcomes of the Delete call in flight for w: it succeeds only on an
\* object the platform still holds, and a cancelled ctx may abort it
DeleteOutcomes(w) ==
  (IF wk[w].item[1].Obj.uid \in live THEN {"ok"} ELSE {})
    \cup {"err"} \cup (IF ctxDone THEN {"canceled"} ELSE {})

\* processItem without the return that ends its error branch: a failed
\* Delete is recorded as a failure and then as a deletion
WorkerDeleteReturnFallingThrough(w) ==
  /\ wk[w].pc = "deleting"
  /\ \E outcome \in DeleteOutcomes(w) :
       LET item    == wk[w].item[1]
           deleted == <<"resources_deleted", item.Resource.Resource, item.Namespace,
                        wk[w].reason>>
           done    == Event(item, "Normal", "ResourceDeleted", wk[w].reason)
       IN  IF outcome = "ok"
             THEN /\ live' = live \ {item.Obj.uid}
                  /\ metrics' = Inc(metrics, deleted)
                  /\ events' = Inc(events, done)
             ELSE /\ metrics' = Inc(Inc(metrics, <<"errors", "delete_resource">>), deleted)
                  /\ events' = Inc(Inc(events, Event(item, "Warning", "DeletionFailed",
                                                     <<outcome>>)), done)
                  /\ UNCHANGED live
  /\ wk' = [wk EXCEPT ![w] = IdleWorker]
  /\ UNCHANGED <<pureVars, now, Config, RuleEngine, ResourceFilter, WorkQueue, closed,
                 ctxDone, run, deletes>>

\* processItem after the Delete call has returned
WorkerDeleteReturn(w) ==
  /\ wk[w].pc = "deleting"
  /\ \E outcome \in DeleteOutcomes(w) :
       LET item == wk[w].item[1]
       IN  IF outcome = "ok"
             THEN /\ live' = live \ {item.Obj.uid}
                  /\ metrics' = Inc(metrics, <<"resources_deleted", item.Resource.Resource,
                                               item.Namespace, wk[w].reason>>)
                  /\ events' = Inc(events, Event(item, "Normal", "ResourceDeleted",
                                                 wk[w].reason))
             ELSE /\ metrics' = Inc(metrics, <<"errors", "delete_resource">>)
                  /\ events' = Inc(events, Event(item, "Warning", "DeletionFailed",
                                                 <<outcome>>))
                  /\ UNCHANGED live
  /\ wk' = [wk EXCEPT ![w] = IdleWorker]
  /\ UNCHANGED <<pureVars, now, Config, RuleEngine, ResourceFilter, WorkQueue, closed,
                 ctxDone, run, deletes>>

\* a worker that returns as soon as the queue is closed, drained or not
WorkerExitOnClose(w) ==
  /\ wk[w].pc = "idle"
  /\ closed \/ ctxDone
  /\ wk' = [wk EXCEPT ![w] = [IdleWorker EXCEPT !.pc = "exited"]]
  /\ UNCHANGED <<pureVars, now, Config, RuleEngine, ResourceFilter, WorkQueue, closed,
                 ctxDone, run, live, deletes, events, metrics>>

\* a worker that returns as soon as it finds the queue empty, closed or not
WorkerExitWhenEmpty(w) ==
  /\ wk[w].pc = "idle"
  /\ WorkQueue = <<>> \/ ctxDone
  /\ wk' = [wk EXCEPT ![w] = [IdleWorker EXCEPT !.pc = "exited"]]
  /\ UNCHANGED <<pureVars, now, Config, RuleEngine, ResourceFilter, WorkQueue, closed,
                 ctxDone, run, live, deletes, events, metrics>>

\* worker: the queue is closed and drained (ok false), or case <-ctx.Done()
WorkerExit(w) ==
  /\ wk[w].pc = "idle"
  /\ (closed /\ WorkQueue = <<>>) \/ ctxDone
  /\ wk' = [wk EXCEPT ![w] = [IdleWorker EXCEPT !.pc = "exited"]]
  /\ UNCHANGED <<pureVars, now, Config, RuleEngine, ResourceFilter, WorkQueue, closed,
                 ctxDone, run, live, deletes, events, metrics>>

\* ------------------------------------------------------------------------
\* The specification of the Janitor
\* ------------------------------------------------------------------------

Next ==
  \/ JanitorNew
  \/ RunStart
  \/ Discover
  \/ ListNamespaces
  \/ ListObjects
  \/ MarkEvaluated
  \/ Send
  \/ RunAfterCleanup
  \/ TickerFire
  \/ RunCtxDone
  \/ RunWait
  \/ Cancel
  \/ Tick
  \/ \E w \in Workers : WorkerRecv(w)
  \/ \E w \in Workers : WorkerDeleteReturn(w)
  \/ \E w \in Workers : WorkerExit(w)

Spec == Init /\ [][Next]_vars

\* ------------------------------------------------------------------------
\* Properties of Run and the workers
\* ------------------------------------------------------------------------

EventReasons == { e.reason : e \in BagToSet(events) }

\* C1: with dry-run enabled no worker ever issues a Delete call, in any
\* interleaving of the reconciliation loop and the workers: no call is in the
\* log of calls and no worker waits for one to return.
C1_DryRunIssuesNoDelete ==
  Config.DryRun => /\ deletes = EmptyBag
                   /\ \A w \in Workers : wk[w].pc # "deleting"

\* a dry run in which a worker has met an item whose Decision is delete
C1_Witness == Config.DryRun /\ "DryRunDeletion" \in EventReasons

\* C2: a step that issues a Delete call is the dequeue of an item whose
\* Decision is delete, and the call carries that item's resource coordinate,
\* namespace and name; the dequeue of an item whose Decision is keep changes
\* no call log, event log, counter or worker; events and counters otherwise
\* change only for a worker whose Delete call for its own item has returned.
C2_DeleteTargetsDequeuedItem ==
  [][ LET dequeue == Len(WorkQueue') < Len(WorkQueue)
          item    == Head(WorkQueue)
          d       == shouldDelete(RuleEngine, item.Obj, now)
      IN  /\ dequeue /\ ~d.delete =>
               /\ deletes' = deletes /\ events' = events /\ metrics' = metrics
               /\ wk' = wk
          /\ deletes' # deletes =>
               /\ dequeue /\ d.delete
               /\ deletes' = Inc(deletes, [Resource |-> item.Resource,
                                           Namespace |-> item.Namespace,
                                           Name |-> item.Name])
               /\ \E w \in Workers : /\ wk[w].pc = "idle" /\ wk'[w].pc = "deleting"
                                     /\ wk'[w].item = <<item>>
          /\ \A w \in Workers :
               wk'[w].pc = "deleting" /\ wk[w].pc # "deleting" => deletes' # deletes
          /\ events' # events /\ ~dequeue =>
               \E w \in Workers :
                 /\ wk[w].pc = "deleting" /\ wk'[w].pc = "idle"
                 /\ \E e \in BagToSet(events') :
                      /\ CopiesIn(e, events') = CopiesIn(e, events) + 1
                      /\ e.ref.Name = wk[w].item[1].Name
                      /\ e.ref.Namespace = wk[w].item[1].Namespace
    ]_vars

\* a worker waits for the Delete call it issued for a namespaced item
C2_Witness ==
  \E w \in Workers :
    /\ wk[w].pc = "deleting"
    /\ wk[w].item[1].Namespace # ""
    /\ CopiesIn([Resource |-> wk[w].item[1].Resource,
                 Namespace |-> wk[w].item[1].Namespace,
                 Name |-> wk[w].item[1].Name], deletes) >= 1

\* ------------------------------------------------------------------------
\* The decision function on its own: one worker, one item on the queue
\* ------------------------------------------------------------------------

Optional(S) == {<<>>} \cup { <<x>> : x \in S }

\* the objects the decision is taken on: every ttl and expires value, absent
\* or present, on a pod that the rule "tmp" below matches
DecideObjects ==
  { Object("v1", "Pod", "default", <<"w", "e", "b">>, "u1", created,
           Annotations(ttl, expires), [k \in {"env"} |-> "tmp"]) :
      created \in {0, 1}, ttl \in Optional(TTLStrings),
      expires \in Optional(ExpiresStrings) }

DecideInstants == 0..2

RuleTmp == Rule(<<"t", "m", "p">>, <<"pods">>, ExprTmp, <<"0", "s">>)

RuleAllDay == Rule(<<"a", "l", "l">>, <<"*">>, ExprTrue, <<"1", "d">>)

\* no engine, an engine whose rule matches with a ttl of 0s, and an engine
\* whose first matching rule has a ttl of one day
DecideEngines == { <<>>, New(<<RuleTmp>>).engine, New(<<RuleAllDay, RuleTmp>>).engine }

PodsGVR == [Group |-> "", Version |-> "v1", Resource |-> "pods"]

InitDecide ==
  /\ arg \in [obj : DecideObjects, now : DecideInstants, engine : DecideEngines,
              dry : BOOLEAN]
  /\ ret = <<>>
  /\ files = RulesFiles
  /\ now = arg.now
  /\ Config = MkConfig(arg.dry, TRUE, FilterAll, "", 1)
  /\ RuleEngine = arg.engine
  /\ ResourceFilter = NewResourceFilter(<<>>, <<>>, <<>>, <<>>)
  /\ WorkQueue = << WorkItem(PodsGVR, arg.obj.namespace, arg.obj) >>
  /\ closed = FALSE
  /\ ctxDone = FALSE
  /\ run = Position("harness")
  /\ wk = [w \in {1} |-> IdleWorker]
  /\ live = {arg.obj.uid}
  /\ deletes = EmptyBag
  /\ events = EmptyBag
  /\ metrics = EmptyBag

\* j.shouldDelete(obj), called as the tests call it
DecideCall ==
  /\ run.pc = "harness"
  /\ ret = <<>>
  /\ ret' = << shouldDelete(arg.engine, arg.obj, arg.now) >>
  /\ UNCHANGED <<arg, files, machineVars>>

NextDecide ==
  \/ DecideCall
  \/ \E w \in Workers : WorkerRecv(w)
  \/ \E w \in Workers : WorkerDeleteReturn(w)

SpecDecide == InitDecide /\ [][NextDecide]_vars

Decided == ret # <<>>

HasTTL == annotationTTL \in DOMAIN arg.obj.annotations

HasExpires == annotationExpires \in DOMAIN arg.obj.annotations

ArgTTL == ParseExtendedDuration(arg.obj.annotations[annotationTTL])

ArgExpires == parseExpirationTime(arg.obj.annotations[annotationExpires])

ArgAge == arg.now - arg.obj.creationTimestamp

\* the object of arg with its janitor/expires annotation replaced (e of length
\* 0: removed)
WithExpires(e) ==
  [arg.obj EXCEPT !.annotations =
     Annotations(IF HasTTL THEN <<arg.obj.annotations[annotationTTL]>> ELSE <<>>, e)]

\* the object of arg without annotations
Unannotated == [arg.obj EXCEPT !.annotations = Annotations(<<>>, <<>>)]

\* what the rules alone say of the object of arg
RulesAloneDelete == rulesDecision(arg.engine, Unannotated, arg.now).delete

\* C3: two objects that carry the same janitor/ttl annotation and differ only
\* in the presence or value of janitor/expires get the same Decision, also
\* when the ttl value is malformed.
C3_ExpiresIgnoredUnderTTL ==
  Decided /\ HasTTL =>
    \A e \in Optional(ExpiresStrings) :
      LET other == shouldDelete(arg.engine, WithExpires(e), arg.now)
      IN  /\ other.delete = ret[1].delete
          /\ other.reason = ret[1].reason

\* a malformed ttl is kept although the expires annotation beside it has passed
C3_Witness ==
  /\ Decided /\ HasTTL /\ HasExpires
  /\ ArgTTL.err
  /\ ~ArgExpires.err /\ arg.now > ArgExpires.t
  /\ ~ret[1].delete

\* C4: when an object carries a janitor/ttl or janitor/expires annotation its
\* Decision is the one the annotation gives without any rule engine, so an
\* unexpired or malformed annotation yields keep even if a loaded rule
\* matches the object and the rule's ttl is exceeded.
C4_AnnotationsShortCircuitRules ==
  Decided /\ (HasTTL \/ HasExpires) =>
    /\ ret[1] = shouldDelete(<<>>, arg.obj, arg.now)
    /\ ret[1].delete => ret[1].reason[1] \in {"TTL expired", "Expiration time reached"}
    /\ HasTTL /\ (ArgTTL.err \/ ~DurGT(Dur(ArgAge, 0), ArgTTL.d)) => ret[1] = Keep
    /\ ~HasTTL /\ (ArgExpires.err \/ arg.now <= ArgExpires.t) => ret[1] = Keep

\* an annotated object is kept while a loaded rule matches it with its ttl exceeded
C4_Witness ==
  /\ Decided /\ (HasTTL \/ HasExpires)
  /\ arg.engine # <<>> /\ RulesAloneDelete
  /\ ret[1] = Keep

\* age > ttl for an age of whole seconds and a ttl of d.s seconds and d.n
\* nanoseconds, 0 <= d.n < 10^9
AgeExceeds(age, d) == age > d.s

\* C5: with a well-formed janitor/ttl the Decision is delete if and only if
\* age > ttl: age = ttl gives keep, and "0s" with a positive age gives delete.
C5_TTLStrictlyExceeded ==
  Decided /\ HasTTL /\ ~ArgTTL.err =>
    /\ ret[1].delete <=> AgeExceeds(ArgAge, ArgTTL.d)
    /\ ArgTTL.d = Dur(ArgAge, 0) => ~ret[1].delete
    /\ arg.obj.annotations[annotationTTL] = <<"0", "s">> /\ ArgAge > 0 => ret[1].delete
    /\ arg.obj.annotations[annotationTTL] = <<"1", "s">> =>
         (ret[1].delete <=> ArgAge >= 2)

\* an object whose age equals its non-zero ttl is kept
C5_Witness ==
  /\ Decided /\ HasTTL /\ ~ArgTTL.err
  /\ ArgTTL.d = Dur(ArgAge, 0) /\ ArgAge > 0
  /\ ~ret[1].delete

\* C6: without janitor/ttl and with a well-formed janitor/expires the Decision
\* is delete if and only if now is strictly after the expiration instant.
C6_ExpiresStrictlyAfter ==
  Decided /\ ~HasTTL /\ HasExpires /\ ~ArgExpires.err =>
    /\ ret[1].delete <=> arg.now > ArgExpires.t
    /\ arg.now = ArgExpires.t => ret[1] = Keep
    /\ arg.obj.annotations[annotationExpires]
         = <<"2", "0", "2", "5", "-", "0", "1", "-", "0", "1", "T",
             "0", "0", ":", "0", "0", ":", "0", "1">> =>
         (ret[1].delete <=> arg.now >= 2)

\* an object whose expiration instant is now is kept
C6_Witness ==
  /\ Decided /\ ~HasTTL /\ HasExpires /\ ~ArgExpires.err
  /\ arg.now = ArgExpires.t
  /\ ret[1] = Keep

Malformed ==
  \/ HasTTL /\ ArgTTL.err
  \/ ~HasTTL /\ HasExpires /\ ArgExpires.err

\* C7: a malformed janitor/ttl, or a malformed janitor/expires on an object
\* without janitor/ttl, yields keep with an empty reason whatever the age,
\* the other annotation and the rules; the worker that meets such an item
\* issues no call, records nothing and is back at the queue.
C7_MalformedAnnotationKeeps ==
  Malformed =>
    /\ Decided => ret[1].delete = FALSE /\ ret[1].reason = <<>>
    /\ deletes = EmptyBag /\ events = EmptyBag /\ metrics = EmptyBag
    /\ \A w \in Workers : wk[w].pc = "idle"

\* a malformed ttl on an old object that a passed expires annotation and a
\* matching rule would both delete: kept, and the worker has gone through it
C7_Witness ==
  /\ Decided /\ HasTTL /\ ArgTTL.err /\ ArgAge > 0
  /\ HasExpires /\ ~ArgExpires.err /\ arg.now > ArgExpires.t
  /\ RulesAloneDelete
  /\ ret[1] = Keep
  /\ WorkQueue = <<>> /\ wk[1].pc = "idle"

\* ------------------------------------------------------------------------
\* The rule engine on its own: New, LoadFromFile, Evaluate and janitor.New
\* ------------------------------------------------------------------------

RulePr == Rule(<<"p", "r">>, <<"Pod">>, ExprPr, <<"1", "s">>)

RuleNever == Rule(<<"n", "o">>, <<"*">>, [op |-> "lit", val |-> BoolVal(FALSE)], <<"1", "s">>)

RuleNamed == Rule(<<"n", "-", "1">>, <<"Node", "services">>, [op |-> "name"], <<"2", "s">>)

\* a second rule of id "tmp"
RuleTmpAgain == Rule(<<"t", "m", "p">>, <<"*">>, ExprTrue, <<"1", "s">>)

RuleBadID == Rule(<<"T", "m", "p">>, <<"*">>, ExprTrue, <<"1", "s">>)

RuleBadTTL == Rule(<<"o", "l", "d">>, <<"*">>, ExprTrue, <<"2", "w", "3", "x">>)

RuleBadExpression == Rule(<<"b", "a", "d">>, <<"*">>, ExprInvalid, <<"1", "s">>)

RulePool == { RuleTmp, RuleAllDay, RulePr, RuleNever, RuleNamed, RuleTmpAgain,
              RuleBadID, RuleBadTTL, RuleBadExpression }

\* the rule lists of a rules file: up to three rules of the pool, in any order
RuleLists ==
  {<<>>} \cup { <<a>> : a \in RulePool } \cup { <<a, b>> : a \in RulePool, b \in RulePool }
         \cup { <<a, b, c>> : a \in RulePool, b \in RulePool, c \in RulePool }

RuleObjects ==
  { Object("v1", "Pod", "default", <<"w", "e", "b">>, "u1", 0, Annotations(<<>>, <<>>),
           [k \in {"env"} |-> "tmp"]),
    Object("v1", "Pod", "default", <<"p", "r", "-", "1">>, "u1", 0, Annotations(<<>>, <<>>),
           EmptyMap),
    Object("v1", "Node", "", <<"n", "1">>, "u1", 0, Annotations(<<>>, <<>>),
           [k \in {"env"} |-> "prod"]),
    Object("v1", "Service", "default", <<>>, "u1", 0, Annotations(<<>>, <<>>), EmptyMap) }

NoResults == [new |-> <<>>, load |-> <<>>, eval |-> <<>>]

InitRules ==
  /\ arg \in [rules : RuleLists, obj : RuleObjects, path : {"rules.yaml", "missing.yaml"}]
  /\ ret = NoResults
  /\ files = [path \in {"rules.yaml"} |-> [readable |-> TRUE, rules |-> arg.rules]]
  /\ MachineInit(MkConfig(FALSE, TRUE, FilterAll, arg.path, 1))

\* rules.New(rules)
NewCall ==
  /\ ret.new = <<>>
  /\ ret' = [ret EXCEPT !.new = << New(arg.rules) >>]
  /\ UNCHANGED <<arg, files, machineVars>>

\* rules.LoadFromFile(path)
LoadFromFileCall ==
  /\ ret.load = <<>>
  /\ ret' = [ret EXCEPT !.load = << LoadFromFile(ReadRulesFile(arg.path)) >>]
  /\ UNCHANGED <<arg, files, machineVars>>

\* engine.Evaluate(obj) on the engine New returned
EvaluateCall ==
  /\ ret.new # <<>> /\ ~ret.new[1].err
  /\ ret.eval = <<>>
  /\ ret' = [ret EXCEPT !.eval = << Evaluate(ret.new[1].engine[1], arg.obj) >>]
  /\ UNCHANGED <<arg, files, machineVars>>

NextRules ==
  \/ NewCall
  \/ LoadFromFileCall
  \/ EvaluateCall
  \/ JanitorNew

SpecRules == InitRules /\ [][NextRules]_vars

\* the positions of the rules of arg that match the object of arg
Matching == { i \in 1..Len(arg.rules) : evaluateRule([rule |-> arg.rules[i]], arg.obj) }

Min(S) == CHOOSE i \in S : \A k \in S : i <= k

\* C8: Evaluate returns the first rule, in source order, whose resources
\* match the object's kind and whose predicate is truthy, with the Duration
\* of that rule's ttl; it returns (nil, 0) exactly when no rule matches.
C8_FirstMatchWins ==
  ret.eval # <<>> =>
    /\ ret.eval[1].rule = <<>> <=> Matching = {}
    /\ Matching = {} => ret.eval[1].ttl = ZeroDur
    /\ Matching # {} =>
         /\ ret.eval[1].rule = << arg.rules[Min(Matching)] >>
         /\ ret.eval[1].ttl = parseExtendedDuration(arg.rules[Min(Matching)].TTL).d
    /\ ret.eval[1] = Evaluate(New(arg.rules).engine[1], arg.obj)

\* two rules of different ttl match the object and the earlier one is returned
C8_Witness ==
  /\ ret.eval # <<>>
  /\ \E i, k \in Matching : i < k /\ arg.rules[i].TTL # arg.rules[k].TTL
                            /\ arg.rules[i].ID # arg.rules[k].ID
  /\ ret.eval[1].rule = << arg.rules[Min(Matching)] >>

ValidRule(rule) ==
  /\ idRegexMatch(rule.ID)
  /\ ~parseExtendedDuration(rule.TTL).err
  /\ Compiles(rule.Expression)

AllValid == \A i \in 1..Len(arg.rules) : ValidRule(arg.rules[i])

\* the result of a load that took every rule, in source order
Complete(r) ==
  /\ ~r.err
  /\ Len(r.engine) = 1
  /\ Len(r.engine[1].rules) = Len(arg.rules)
  /\ \A i \in 1..Len(arg.rules) : r.engine[1].rules[i].rule = arg.rules[i]

Nothing(r) == r.err /\ r.engine = <<>>

\* C9: New and LoadFromFile return an engine, holding every rule, only if
\* every rule has an id matching ^[a-z][a-z0-9-]*$, a parsable ttl and a
\* compilable expression; with an invalid rule at any position they return
\* an error and no engine, and janitor.New fails.
C9_LoadAllOrNothing ==
  /\ ret.new # <<>> =>
       IF AllValid THEN Complete(ret.new[1]) ELSE Nothing(ret.new[1])
  /\ ret.load # <<>> =>
       IF AllValid /\ arg.path \in DOMAIN files
         THEN Complete(ret.load[1]) ELSE Nothing(ret.load[1])
  /\ run.pc = "failed" => RuleEngine = <<>> /\ (~AllValid \/ arg.path \notin DOMAIN files)
  /\ run.pc = "start" => /\ AllValid /\ arg.path \in DOMAIN files
                         /\ Complete([err |-> FALSE, engine |-> RuleEngine])

\* valid rules followed by an invalid one: New and LoadFromFile have returned
\* an error without an engine and janitor.New has failed
C9_Witness ==
  /\ Len(arg.rules) >= 2 /\ ValidRule(arg.rules[1]) /\ ~AllValid
  /\ arg.path \in DOMAIN files
  /\ ret.new # <<>> /\ Nothing(ret.new[1])
  /\ ret.load # <<>> /\ Nothing(ret.load[1])
  /\ run.pc = "failed"

\* ------------------------------------------------------------------------
\* The resource filter on its own
\* ------------------------------------------------------------------------

\* the lists of up to two names over S
Lists(S) == {<<>>} \cup { <<a>> : a \in S } \cup { <<a, b>> : a \in S, b \in S }

FilterResources == {"pods", "nodes"}

FilterNamespaces == {"default", "kube-system"}

InitFilter ==
  /\ arg \in [resource : FilterResources \cup {"events"},
              namespace : FilterNamespaces \cup {"dev"}]
  /\ ret = [resource |-> <<>>, namespace |-> <<>>]
  /\ files = RulesFiles
  /\ \E ir \in Lists(FilterResources), er \in Lists(FilterResources),
        ins \in Lists(FilterNamespaces), ens \in Lists(FilterNamespaces) :
       MachineInit(MkConfig(FALSE, TRUE, <<ir, er, ins, ens>>, "", 1))

\* j.ResourceFilter.ShouldProcessResource(resource)
ShouldProcessResourceCall ==
  /\ run.pc = "start"
  /\ ret.resource = <<>>
  /\ ret' = [ret EXCEPT !.resource = << ShouldProcessResource(ResourceFilter, arg.resource) >>]
  /\ UNCHANGED <<arg, files, machineVars>>

\* j.ResourceFilter.ShouldProcessNamespace(namespace)
ShouldProcessNamespaceCall ==
  /\ run.pc = "start"
  /\ ret.namespace = <<>>
  /\ ret' = [ret EXCEPT !.namespace =
                          << ShouldProcessNamespace(ResourceFilter, arg.namespace) >>]
  /\ UNCHANGED <<arg, files, machineVars>>

NextFilter ==
  \/ JanitorNew
  \/ ShouldProcessResourceCall
  \/ ShouldProcessNamespaceCall

SpecFilter == InitFilter /\ [][NextFilter]_vars

Advertised ==
  UNION { SeqToSet(ServerResources[i].APIResources) : i \in 1..Len(ServerResources) }

\* the filter formula over Config: not excluded, and included or no include list
Admits(include, exclude, name) ==
  /\ name \notin SeqToSet(exclude)
  /\ (include = <<>> \/ name \in SeqToSet(include))

\* the kind named name may be listed and deleted, the resource filter admits
\* it, and namespace is one the namespace filter admits ("" for a kind that
\* is not namespaced)
Eligible(name, namespace) ==
  \E resource \in Advertised :
    /\ resource.Name = name
    /\ {"list", "delete"} \subseteq resource.Verbs
    /\ Admits(Config.IncludeResources, Config.ExcludeResources, name)
    /\ IF resource.Namespaced
         THEN Admits(Config.IncludeNamespaces, Config.ExcludeNamespaces, namespace)
         ELSE namespace = ""

\* the WorkItems on the queue and in the hands of the workers
ItemsInFlight ==
  SeqToSet(WorkQueue) \cup UNION { SeqToSet(wk[w].item) : w \in Workers }

\* C11: every WorkItem on the queue or taken from it belongs to a kind whose
\* verbs contain list and delete and whose name the resource filter admits,
\* and for a namespaced kind to a namespace the namespace filter admits; no
\* object of an excluded namespace is enqueued, whatever its annotations; the
\* loop lists and sends only for such a kind and namespace.
C11_OnlyEligibleItemsEnqueued ==
  /\ \A item \in ItemsInFlight :
       /\ Eligible(item.Resource.Resource, item.Namespace)
       /\ item.Obj.namespace = item.Namespace
       /\ item.Obj.namespace \notin SeqToSet(Config.ExcludeNamespaces)
  /\ run.pc \in {"list", "send"} =>
       Eligible(Head(run.res).resource.Name, ListNamespace(run))

\* a cycle has gone past the excluded namespace, which holds an object with
\* an expired ttl annotation, and has enqueued an object of another namespace
C11_Witness ==
  /\ Config.ExcludeNamespaces = <<"kube-system">>
  /\ \E i \in 1..Len(ClusterObjects) :
       /\ ClusterObjects[i].namespace = "kube-system"
       /\ annotationTTL \in DOMAIN ClusterObjects[i].annotations
       /\ ClusterObjects[i].uid \in live
  /\ run.pc = "cleanupDone" /\ ~run.err
  /\ \E item \in SeqToSet(WorkQueue) : item.Namespace = "default"

\* ------------------------------------------------------------------------
\* Cancellation
\* ------------------------------------------------------------------------

\* a step of the goroutine that runs New and Run
RunStep ==
  \/ JanitorNew
  \/ RunStart
  \/ Discover
  \/ ListNamespaces
  \/ ListObjects
  \/ MarkEvaluated
  \/ Send
  \/ RunAfterCleanup
  \/ TickerFire
  \/ RunCtxDone
  \/ RunWait

\* a step of the goroutine of worker w
WorkerStep(w) == WorkerRecv(w) \/ WorkerDeleteReturn(w) \/ WorkerExit(w)

\* no goroutine of the janitor can take a step: Run and every worker are
\* blocked or gone, and only the clock moves
Stuck == ~ENABLED RunStep /\ \A w \in Workers : ~ENABLED WorkerStep(w)

\* C12: in periodic mode, once ctx is cancelled Run eventually closes the
\* queue, waits for the workers and returns, wherever the loop and the
\* workers stand at that moment; so after the cancellation and before the
\* return the janitor is never in a state none of its goroutines can leave.
C12_CancelledRunReturns ==
  ~Config.Once /\ ctxDone /\ run.pc # "returned" => ~Stuck

\* C13: a Delete call a worker has started when ctx is cancelled is not
\* interrupted: the cancellation leaves the outcomes the call can return
\* what they were, and the worker records the outcome before it exits.
C13_InFlightDeleteNotInterrupted ==
  [][ /\ ~ctxDone /\ ctxDone' =>
           \A w \in Workers :
             wk[w].pc = "deleting" => DeleteOutcomes(w)' = DeleteOutcomes(w)
      /\ \A w \in Workers :
           wk[w].pc = "deleting" /\ wk'[w].pc # "deleting" =>
             /\ wk'[w].pc = "idle"
             /\ BagCardinality(events') = BagCardinality(events) + 1
    ]_vars
\* ------------------------------------------------------------------------
\* The queue
\* ------------------------------------------------------------------------

\* the step executes close(j.WorkQueue)
Closes == run.pc \in {"cleanupDone", "select"} /\ run'.pc = "wait"

\* C14: the queue is closed at most once, by Run and after cleanup has
\* returned, so the producer is not sending, and no WorkItem is sent to the
\* queue once it is closed.
C14_ClosedOnceAfterProducerStopped ==
  [][ /\ closed => closed'
      /\ closed' /\ ~closed => Closes
      /\ Closes => ~closed /\ closed'
      /\ closed => run.pc \in {"wait", "returned"}
      /\ closed => Len(WorkQueue') <= Len(WorkQueue) /\ run'.items = run.items
      /\ Len(WorkQueue') > Len(WorkQueue) => ~closed /\ ~closed' /\ run.pc = "send"
    ]_vars

\* the queue is closed while it holds items sent before, and a worker drains it
C14_Witness ==
  /\ closed /\ run.pc = "wait"
  /\ Len(WorkQueue) = 1
  /\ \E w \in Workers : wk[w].pc = "deleting"
\* C15: a worker exits only from its select, when the queue is closed and
\* empty or ctx is cancelled; so when Run returns in once mode after a
\* successful cycle and without cancellation, no WorkItem is left on the
\* queue or in the hands of a worker: every item sent has been processed.
C15_WorkersDrainBeforeReturn ==
  [][ /\ \A w \in Workers :
           wk[w].pc # "exited" /\ wk'[w].pc = "exited" =>
             /\ wk[w].pc = "idle"
             /\ (closed /\ WorkQueue = <<>>) \/ ctxDone
      /\ Config.Once /\ run'.pc = "returned" /\ ~run'.err /\ ~ctxDone' =>
           /\ WorkQueue' = <<>>
           /\ \A w \in Workers : wk'[w].pc = "exited" /\ wk'[w].item = <<>>
    ]_vars

\* Run has returned in once mode, without error or cancellation, after the
\* workers have deleted an object and failed to delete another
C15_Witness ==
  /\ Config.Once /\ run.pc = "returned" /\ ~run.err /\ ~ctxDone
  /\ {"ResourceDeleted", "DeletionFailed"} \subseteq EventReasons
  /\ WorkQueue = <<>>
\* the workers that come to hold an item in the step
Taking == { w \in Workers : wk'[w].item # <<>> /\ wk'[w].item # wk[w].item }

\* the step takes the head entry off the queue
Dequeues == WorkQueue # <<>> /\ WorkQueue' = Tail(WorkQueue)

\* the step puts one entry at the back of the queue
Enqueues == Len(WorkQueue') = Len(WorkQueue) + 1
              /\ SubSeq(WorkQueue', 1, Len(WorkQueue)) = WorkQueue

\* C16: each entry of the queue is dequeued by at most one worker and
\* processed at most once: the queue changes only by one entry put at its
\* back by the loop or by its head entry taken off; the step that takes an
\* entry off hands it to one idle worker and to no other, and makes at most
\* one Delete call or one dry-run event for it; a worker holds its entry
\* until the call returns, and no step processes an entry without taking it.
C16_EntryProcessedAtMostOnce ==
  [][ /\ WorkQueue' # WorkQueue => Dequeues \/ (Enqueues /\ run.pc = "send")
      /\ Cardinality(Taking) <= 1
      /\ \A w \in Taking :
           /\ Dequeues
           /\ wk[w].pc = "idle" /\ wk'[w].item = << Head(WorkQueue) >>
           /\ \A v \in Workers \ {w} : wk'[v] = wk[v]
      /\ Dequeues =>
           /\ BagCardinality(deletes') + BagCardinality(events')
                <= BagCardinality(deletes) + BagCardinality(events) + 1
           /\ Cardinality({ w \in Workers : wk'[w] # wk[w] }) <= 1
      /\ \A w \in Workers :
           wk[w].item # <<>> => wk'[w].item \in {wk[w].item, <<>>}
      /\ deletes' # deletes => Dequeues
      /\ events' # events =>
           Dequeues \/ \E w \in Workers : wk[w].pc = "deleting" /\ wk'[w].pc = "idle"
    ]_vars

\* two workers each hold an entry of their own
C16_Witness ==
  \E w, v \in Workers :
    /\ w # v
    /\ wk[w].pc = "deleting" /\ wk[v].pc = "deleting"
    /\ wk[w].item[1].Obj.uid # wk[v].item[1].Obj.uid
\* ------------------------------------------------------------------------
\* Errors of the cycle
\* ------------------------------------------------------------------------

Errors(type) == Count(metrics, <<"errors", type>>)

\* where the loop stands among the kinds and, within a kind, its namespaces
KindsLeft(r) == IF r.pc \in {"namespaces", "list", "send"} THEN Len(r.res) ELSE 0

NamespacesLeft(r) == IF r.pc \in {"list", "send"} THEN Len(r.nss) ELSE 0

\* position r2 of the loop is past the kind and namespace of position r1
PastPair(r1, r2) ==
  \/ KindsLeft(r2) < KindsLeft(r1)
  \/ KindsLeft(r2) = KindsLeft(r1) /\ NamespacesLeft(r2) < NamespacesLeft(r1)

\* C17: when List fails for a kind and namespace (or a cluster-scoped kind),
\* errors{type=process_resources} goes up by exactly one and no other
\* counter moves, nothing is enqueued for the pair, and the cycle goes on
\* exactly as after an empty list: to the next admitted namespace or kind,
\* or to a successful end; only a discovery failure fails a cycle.
C17_ListFailureIsNotFatal ==
  [][ /\ Errors("process_resources")' # Errors("process_resources") =>
           /\ run.pc = "list"
           /\ metrics' = Inc(metrics, <<"errors", "process_resources">>)
           /\ WorkQueue' = WorkQueue
           /\ run' = AfterList(ResourceFilter, run)
           /\ PastPair(run, run')
           /\ ~run'.err
           /\ run'.pc \in {"namespaces", "list", "cleanupDone"}
      /\ run'.err /\ ~run.err => run.pc \in {"new", "discover"}
    ]_vars

\* listing the pods of namespace default has failed once; the cycle has gone
\* on to enqueue a pod of kube-system and has ended without error
C17_Witness ==
  /\ Errors("process_resources") = 1
  /\ Count(metrics, <<"resources_evaluated", "pods", "default">>) = 0
  /\ \E item \in SeqToSet(WorkQueue) :
       item.Resource.Resource = "pods" /\ item.Namespace = "kube-system"
  /\ run.pc = "cleanupDone" /\ ~run.err /\ run.cycles = 1
\* the kind of descriptor resource may be listed and deleted and the
\* resource filter admits it
KindEligible(resource) ==
  /\ {"list", "delete"} \subseteq resource.Verbs
  /\ Admits(Config.IncludeResources, Config.ExcludeResources, resource.Name)

\* C18: when getNamespaces fails for a namespaced kind,
\* errors{type=list_namespaces} goes up by exactly one and no other counter
\* moves, nothing is enqueued, and the cycle goes on, without error, to the
\* next kind that can be listed and deleted and that the filter admits,
\* namespaced or not: only the kind being handled is skipped.
C18_NamespaceListFailureSkipsKind ==
  [][ Errors("list_namespaces")' # Errors("list_namespaces") =>
        /\ run.pc = "namespaces"
        /\ metrics' = Inc(metrics, <<"errors", "list_namespaces">>)
        /\ WorkQueue' = WorkQueue
        /\ ~run'.err
        /\ run'.pc \in {"namespaces", "list", "cleanupDone"}
        /\ KindsLeft(run') < KindsLeft(run)
        /\ \A i \in 2..(Len(run.res) - KindsLeft(run')) : ~KindEligible(run.res[i].resource)
        /\ run'.pc # "cleanupDone" =>
             /\ run'.res = SubSeq(run.res, Len(run.res) - KindsLeft(run') + 1, Len(run.res))
             /\ KindEligible(Head(run'.res).resource)
             /\ Head(run'.res).resource.Namespaced <=> run'.pc = "namespaces"
    ]_vars

\* getNamespaces has failed once, for the pods; the cycle has enqueued a
\* node, a later cluster-scoped kind, and asks for the namespaces again for
\* the deployments, a later namespaced kind
C18_Witness ==
  /\ Errors("list_namespaces") = 1 /\ run.cycles = 1
  /\ Count(metrics, <<"resources_evaluated", "pods", "default">>) = 0
  /\ Count(metrics, <<"resources_evaluated", "pods", "kube-system">>) = 0
  /\ \E item \in SeqToSet(WorkQueue) : item.Resource.Resource = "nodes"
  /\ run.pc = "namespaces" /\ Head(run.res).resource.Name = "deployments"
\* C19: a failure of discovery fails its cycle only: the cycle enqueues
\* nothing and errors{type=cleanup} goes up by exactly one, when Run takes
\* the error of cleanup; in once mode Run then returns that error; in
\* periodic mode Run goes to its select, where the ticker starts the next
\* cycle, and returns only when ctx is cancelled.
C19_DiscoveryFailureFailsOneCycle ==
  [][ /\ run.pc = "discover" /\ run'.err =>
           /\ run'.pc = "cleanupDone"
           /\ WorkQueue' = WorkQueue /\ metrics' = metrics
      /\ run.pc = "cleanupDone" /\ run.err /\ run' # run =>
           /\ metrics' = Inc(metrics, <<"errors", "cleanup">>)
           /\ WorkQueue' = WorkQueue
           /\ IF Config.Once THEN run'.pc = "returned" /\ run'.err
                             ELSE run'.pc = "select" /\ ~run'.err
      /\ Errors("cleanup")' # Errors("cleanup") => run.pc = "cleanupDone" /\ run.err
      /\ Errors("cleanup") <= run.cycles
      /\ ~Config.Once /\ run'.pc = "returned" => ctxDone
      /\ run.pc = "select" /\ run.cycles < MaxCycles => ENABLED TickerFire
      /\ run.pc = "select" /\ run'.pc = "discover" => run'.cycles = run.cycles + 1
    ]_vars

\* periodic mode: the first cycle failed at discovery and enqueued nothing,
\* and the second cycle has listed objects it is about to send
C19_Witness ==
  /\ ~Config.Once /\ run.cycles = 2 /\ Errors("cleanup") = 1
  /\ \A ns \in {"default", "kube-system"} :
       Count(metrics, <<"resources_evaluated", "pods", ns>>) = 0
  /\ WorkQueue = <<>>
  /\ run.pc = "send"
\* ------------------------------------------------------------------------
\* Outcomes of the Delete calls
\* ------------------------------------------------------------------------

\* the number of elements of bag, with their copies, that are in the set S
RECURSIVE CopiesOf(_, _)
CopiesOf(bag, S) ==
  IF S = {} THEN 0
  ELSE LET x == CHOOSE x \in S : TRUE
       IN  CopiesIn(x, bag) + CopiesOf(bag, S \ {x})

\* the number of events of reason recorded
EventCount(reason) == CopiesOf(events, { e \in BagToSet(events) : e.reason = reason })

\* the total of the counter named name, over its labels
CounterTotal(name) == CopiesOf(metrics, { m \in BagToSet(metrics) : m[1] = name })

\* C20: with dry-run off, the dequeue of an item whose Decision is delete
\* makes exactly one Delete call and records nothing yet; when the call
\* returns, the worker records exactly one outcome: on success one
\* ResourceDeleted event and one resources_deleted increment and nothing
\* else, on failure one DeletionFailed event and one
\* errors{type=delete_resource} increment and nothing else; either way it is
\* back at its select. So the calls made are the outcomes recorded plus the
\* calls in flight, and each counter equals the number of its events.
C20_OneCallOneOutcome ==
  [][ /\ Dequeues /\ ~Config.DryRun
           /\ shouldDelete(RuleEngine, Head(WorkQueue).Obj, now).delete =>
           /\ deletes' = Inc(deletes, [Resource |-> Head(WorkQueue).Resource,
                                       Namespace |-> Head(WorkQueue).Namespace,
                                       Name |-> Head(WorkQueue).Name])
           /\ events' = events /\ metrics' = metrics
      /\ \A w \in Workers :
           wk[w].pc = "deleting" /\ wk'[w] # wk[w] =>
             LET item == wk[w].item[1]
                 ref  == [ APIVersion |-> item.Resource.Group \o "/" \o item.Resource.Version,
                           Kind |-> item.Obj.kind, Namespace |-> item.Namespace,
                           Name |-> item.Name, UID |-> item.Obj.uid ]
             IN  /\ wk'[w].pc = "idle" /\ wk'[w].item = <<>>
                 /\ deletes' = deletes
                 /\ \/ /\ events' = Inc(events, [ref |-> ref, type |-> "Normal",
                                                 reason |-> "ResourceDeleted",
                                                 why |-> wk[w].reason])
                       /\ metrics' = Inc(metrics, <<"resources_deleted",
                                                    item.Resource.Resource, item.Namespace,
                                                    wk[w].reason>>)
                    \/ /\ \E why \in {<<"err">>, <<"canceled">>} :
                            events' = Inc(events, [ref |-> ref, type |-> "Warning",
                                                   reason |-> "DeletionFailed",
                                                   why |-> why])
                       /\ metrics' = Inc(metrics, <<"errors", "delete_resource">>)
      /\ BagCardinality(deletes)
           = EventCount("ResourceDeleted") + EventCount("DeletionFailed")
               + Cardinality({ w \in Workers : wk[w].pc = "deleting" })
      /\ CounterTotal("resources_deleted") = EventCount("ResourceDeleted")
      /\ Errors("delete_resource") = EventCount("DeletionFailed")
    ]_vars

\* two Delete calls have failed and a third is in flight: with two workers,
\* a worker has gone on to another item after a failure
C20_Witness ==
  /\ ~Config.DryRun
  /\ Errors("delete_resource") = 2 /\ EventCount("DeletionFailed") = 2
  /\ CounterTotal("resources_deleted") = 0
  /\ Cardinality(Workers) = 2
  /\ \E w \in Workers : wk[w].pc = "deleting"

\* ------------------------------------------------------------------------
\* Dry run
\* ------------------------------------------------------------------------

\* C21: in dry-run mode, the dequeue of a WorkItem whose Decision is delete
\* emits one Normal event DryRunDeletion for it, with the reason of the
\* Decision, and records a metric for it: some counter goes up.
C21_DryRunEventAndMetric ==
  [][ Dequeues /\ Config.DryRun
        /\ shouldDelete(RuleEngine, Head(WorkQueue).Obj, now).delete =>
        /\ events' = Inc(events, Event(Head(WorkQueue), "Normal", "DryRunDeletion",
                                       shouldDelete(RuleEngine, Head(WorkQueue).Obj,
                                                    now).reason))
        /\ metrics' # metrics
    ]_vars

\* ------------------------------------------------------------------------
\* The cycles of Run
\* ------------------------------------------------------------------------

\* the step enters cleanup: a cycle starts
CycleStarts == run'.pc = "discover" /\ run.pc # "discover"

\* C22: the first cycle starts with the first step Run takes, before its
\* select is ever entered; every later cycle starts from the select of
\* periodic mode, on a receive from the ticker; once mode never enters the
\* select, starts no second cycle and has run exactly one when Run returns.
C22_CyclesStartOnTicks ==
  [][ /\ CycleStarts <=> run'.cycles = run.cycles + 1
      /\ run'.cycles # run.cycles => CycleStarts
      /\ CycleStarts =>
           IF run.cycles = 0 THEN run.pc = "start"
           ELSE ~Config.Once /\ run.pc = "select"
      /\ run.pc = "start" /\ run' # run => CycleStarts
      /\ run'.pc = "select" => ~Config.Once /\ run'.cycles >= 1
      /\ Config.Once => run'.cycles <= 1
      /\ Config.Once /\ run'.pc = "returned" => run'.cycles = 1
    ]_vars

\* periodic mode has started its second cycle, on a tick
C22_Witness == ~Config.Once /\ run.cycles = 2 /\ run.pc = "discover"

\* ------------------------------------------------------------------------
\* The order of the work
\* ------------------------------------------------------------------------

\* s is what is left of t after some of its first elements
IsSuffix(s, t) == \E k \in 0..Len(t) : s = SubSeq(t, k + 1, Len(t))

\* C23: within a cycle the kinds are visited in discovery order and the
\* namespaces in the order they were listed; the objects a List call
\* returned are sent one by one in the order it returned them, each put at
\* the back of the queue; a worker always receives the entry at the front,
\* so entries leave the queue in the order they entered it. The outcomes
\* of the Delete calls are recorded in any order.
C23_QueueIsFIFO ==
  [][ /\ IsSuffix(run'.res, Descriptors(ServerResources))
      /\ IsSuffix(run'.nss, Namespaces)
      /\ ~CycleStarts /\ run'.res # run.res /\ run.pc \in {"namespaces", "list", "send"} =>
           Len(run'.res) < Len(run.res)
      /\ run'.nss # run.nss /\ run.pc \in {"list", "send"} /\ run'.res = run.res =>
           Len(run'.nss) < Len(run.nss)
      /\ run.pc = "list" /\ run'.pc = "send" =>
           /\ run'.items = Listed(Head(run.res).resource, ListNamespace(run))
           /\ run'.res = run.res /\ run'.nss = run.nss
      /\ run.pc = "send" /\ run'.items # run.items =>
           /\ Enqueues
           /\ run'.items = IF run'.pc = "send" THEN Tail(run.items) ELSE <<>>
      /\ Enqueues =>
           /\ run.pc = "send"
           /\ WorkQueue'[Len(WorkQueue')]
                = [ Resource |-> Head(run.res).gvr, Namespace |-> ListNamespace(run),
                    Name |-> Head(run.items).name, Obj |-> Head(run.items) ]
           /\ IF Len(run.items) > 1
                THEN run'.pc = "send" /\ run'.items = Tail(run.items)
                                      /\ run'.res = run.res /\ run'.nss = run.nss
                ELSE run'.pc # "send"
      /\ WorkQueue' # WorkQueue => Enqueues \/ Dequeues
      /\ \A w \in Taking : Dequeues /\ wk'[w].item = << Head(WorkQueue) >>
      /\ events' # events \/ deletes' # deletes =>
           \/ Dequeues
           \/ \E w \in Workers : wk[w].pc = "deleting" /\ wk'[w].pc = "idle"
    ]_vars

\* two pods were listed and sent in the order u1, u2, both were dequeued,
\* and the call for u2 has returned while the call for u1 is in flight
C23_Witness ==
  /\ \E w \in Workers : wk[w].pc = "deleting" /\ wk[w].item[1].Obj.uid = "u1"
  /\ \E e \in BagToSet(events) : e.ref.UID = "u2"
  /\ \A e \in BagToSet(events) : e.ref.UID # "u1"

\* ------------------------------------------------------------------------
\* The duration parsers on their own
\* ------------------------------------------------------------------------

DurationUnits ==
  { <<"n", "s">>, <<"u", "s">>, <<"µ", "s">>, <<"m", "s">>, <<"s">>, <<"m">>, <<"h">>,
    <<"d">>, <<"w">>, <<"m", "o", "n", "t", "h">>, <<"m", "o", "n", "t", "h", "s">> }

DurationNumbers == { <<"2">>, <<"1", "0">> }

Token(n, unit) == [n |-> n, unit |-> unit]

\* the text of the tokens toks with seps[i] between token i and token i + 1
RECURSIVE Render(_, _)
Render(toks, seps) ==
  IF toks = <<>> THEN <<>>
  ELSE Head(toks).n \o Head(toks).unit
         \o (IF Tail(toks) = <<>> THEN <<>> ELSE Head(seps) \o Render(Tail(toks), Tail(seps)))

\* every string of one to most tokens, each pair of neighbours written
\* together or with one space between, with the tokens it was written from
GeneratedDurations(most) ==
  UNION { { [s |-> Render(toks, seps), toks |-> toks] :
              toks \in [1..k -> [n : DurationNumbers, unit : DurationUnits]],
              seps \in [1..(k - 1) -> {<<>>, <<" ">>}] } : k \in 1..most }

\* "1month2w3d12h30m" and "2w 3d 12h" of TestParseExtendedDuration
DurationExamples ==
  { [ s |-> <<"1", "m", "o", "n", "t", "h", "2", "w", "3", "d", "1", "2", "h", "3", "0", "m">>,
      toks |-> << Token(<<"1">>, <<"m", "o", "n", "t", "h">>), Token(<<"2">>, <<"w">>),
                  Token(<<"3">>, <<"d">>), Token(<<"1", "2">>, <<"h">>),
                  Token(<<"3", "0">>, <<"m">>) >> ],
    [ s |-> <<"2", "w", " ", "3", "d", " ", "1", "2", "h">>,
      toks |-> << Token(<<"2">>, <<"w">>), Token(<<"3">>, <<"d">>),
                  Token(<<"1", "2">>, <<"h">>) >> ] }

\* strings that are not written from tokens alone: "0", "-1h", "+1h", ".5h",
\* "1.h", "1.5h", "1.5d", "0.5w", "5x", "abcd", "x1d", "1d,2h", " 1d", "1d ",
\* "2 w", "1d<tab>2h", "2<tab>d", "d", "1.5", "1h2"
DurationOddities ==
  { <<"0">>, <<"-", "1", "h">>, <<"+", "1", "h">>, <<".", "5", "h">>, <<"1", ".", "h">>,
    <<"1", ".", "5", "h">>, <<"1", ".", "5", "d">>, <<"0", ".", "5", "w">>,
    <<"5", "x">>, <<"a", "b", "c", "d">>, <<"x", "1", "d">>,
    <<"1", "d", ",", "2", "h">>, <<" ", "1", "d">>, <<"1", "d", " ">>, <<"2", " ", "w">>,
    <<"1", "d", "\t", "2", "h">>, <<"2", "\t", "d">>, <<"d">>, <<"1", ".", "5">>,
    <<"1", "h", "2">> }

\* the inputs of the duration parsers, with generated strings of up to most tokens
DurationInputs(most) ==
  GeneratedDurations(most) \cup DurationExamples
    \cup { [s |-> x, toks |-> <<>>] : x \in TTLStrings \cup DurationOddities }

InitDuration ==
  /\ arg \in DurationInputs(MaxTokens)
  /\ ret = [janitor |-> <<>>, rules |-> <<>>]
  /\ files = RulesFiles
  /\ MachineInit(MkConfig(FALSE, TRUE, FilterAll, "", 1))

\* janitor.ParseExtendedDuration(s)
ParseExtendedDurationCall ==
  /\ ret.janitor = <<>>
  /\ ret' = [ret EXCEPT !.janitor = << ParseExtendedDuration(arg.s) >>]
  /\ UNCHANGED <<arg, files, machineVars>>

\* the rules package's parseExtendedDuration(s)
parseExtendedDurationCall ==
  /\ ret.rules = <<>>
  /\ ret' = [ret EXCEPT !.rules = << parseExtendedDuration(arg.s) >>]
  /\ UNCHANGED <<arg, files, machineVars>>

NextDuration ==
  \/ ParseExtendedDurationCall
  \/ parseExtendedDurationCall

SpecDuration == InitDuration /\ [][NextDuration]_vars

\* the results the two parsers have returned for arg.s
Parsed == SeqToSet(ret.janitor) \cup SeqToSet(ret.rules)

\* C24: for every string the platform-native parser accepts, the duration
\* parser succeeds and returns the native parser's value.
C24_NativeValueReturned ==
  ~NativeParseDuration(arg.s).err =>
    \A r \in Parsed : ~r.err /\ r.d = NativeParseDuration(arg.s).d

\* both parsers have returned -1h for "-1h", which the native parser accepts
\* and of which the tokenizer matches only "1h"
C24_Witness ==
  /\ arg.s = <<"-", "1", "h">>
  /\ ret.janitor = << ParseOk(Dur(-3600, 0)) >> /\ ret.rules = ret.janitor
  /\ FindAll(arg.s, 1) # <<>>

\* the value of a unit as the grammar gives it: d = 24h, w = 7d,
\* month = months = 30d
UnitValue(unit) ==
  CASE unit = <<"n", "s">> -> Dur(0, 1)
    [] unit \in { <<"u", "s">>, <<"µ", "s">> } -> Dur(0, 1000)
    [] unit = <<"m", "s">> -> Dur(0, 1000000)
    [] unit = <<"s">> -> Dur(1, 0)
    [] unit = <<"m">> -> Dur(60, 0)
    [] unit = <<"h">> -> Dur(3600, 0)
    [] unit = <<"d">> -> Dur(24 * 3600, 0)
    [] unit = <<"w">> -> Dur(7 * 24 * 3600, 0)
    [] OTHER -> Dur(30 * 24 * 3600, 0)

\* the sum over the tokens of number x unit value
RECURSIVE SumOfTokens(_)
SumOfTokens(toks) ==
  IF toks = <<>> THEN ZeroDur
  ELSE DurAdd(DurMulInt(NumVal(Head(toks).n, 1, Len(Head(toks).n) + 1),
                        UnitValue(Head(toks).unit)),
              SumOfTokens(Tail(toks)))

\* C25: for every string written from one or more tokens, each a whole
\* number and one of the eleven units, written together or with spaces
\* between them, the duration parser succeeds and returns the sum over the
\* tokens of number x unit value, in every order and mix of the units.
C25_TokensSum ==
  arg.toks # <<>> => \A r \in Parsed : ~r.err /\ r.d = SumOfTokens(arg.toks)

\* the positions of s that lie in none of the matches ms
Outside(s, ms) ==
  { p \in 1..Len(s) : \A i \in 1..Len(ms) : p < ms[i].from \/ p >= ms[i].to }

\* s holds a character that is not whitespace outside the matched tokens
Stray(s) == \E p \in Outside(s, FindAll(s, 1)) : s[p] \notin Spaces

\* the inputs C26 names: the empty string, no token matches, or a character
\* that is not whitespace stands outside the matched tokens
Malformed26(s) == s = <<>> \/ FindAll(s, 1) = <<>> \/ Stray(s)

\* C26: the duration parser returns an error, and no duration, for the
\* empty string, for every input in which no token matches and for every
\* input with a character that is not whitespace outside the matched tokens.
C26_MalformedRejected ==
  Malformed26(arg.s) => \A r \in Parsed : r.err /\ r.d = ZeroDur

\* C26 as amended: the same for every input the platform-native parser
\* rejects; an input it accepts is returned with the native value, whatever
\* the tokenizer would match of it.
C26_MalformedRejectedAfterNative ==
  /\ NativeParseDuration(arg.s).err /\ Malformed26(arg.s) =>
       \A r \in Parsed : r.err /\ r.d = ZeroDur
  /\ \A r \in Parsed : ~r.err /\ NativeParseDuration(arg.s).err => ~Stray(arg.s)

\* both parsers have rejected "2w3x", of which the tokenizer matches "2w"
C26_Witness ==
  /\ arg.s = <<"2", "w", "3", "x">>
  /\ Len(FindAll(arg.s, 1)) = 1
  /\ ret.janitor = <<ParseErr>> /\ ret.rules = <<ParseErr>>

\* ------------------------------------------------------------------------
\* The expiration parser on its own
\* ------------------------------------------------------------------------

DigitChar(k) == CHOOSE c \in Digits : DigitVal(c) = k

TwoDigits(k) == << DigitChar(k \div 10), DigitChar(k % 10) >>

\* a date, a time of day (none, hh:mm or hh:mm:ss) and a zone (none, or an
\* offset in hours) written as the layouts write them
RenderInstant(date, time, zone) ==
  TwoDigits(date[1] \div 100) \o TwoDigits(date[1] % 100) \o <<"-">> \o TwoDigits(date[2])
    \o <<"-">> \o TwoDigits(date[3])
    \o (IF time = <<>> THEN <<>> ELSE <<"T">> \o TwoDigits(time[1]) \o <<":">>
                                        \o TwoDigits(time[2]))
    \o (IF Len(time) = 3 THEN <<":">> \o TwoDigits(time[3]) ELSE <<>>)
    \o (IF zone = <<>> THEN <<>>
        ELSE IF zone[1] = 0 THEN <<"Z">>
        ELSE << IF zone[1] < 0 THEN "-" ELSE "+" >>
               \o TwoDigits(IF zone[1] < 0 THEN 0 - zone[1] ELSE zone[1]) \o <<":", "0", "0">>)

ExpirationDates == { <<y, mo, d>> : y \in {2024, 2025}, mo \in {1, 2, 12, 13}, d \in {1, 29, 31} }

ExpirationTimes ==
  { <<>> } \cup { <<h, mi>> : h \in {0, 23, 24}, mi \in {0, 59} }
           \cup { <<h, mi, sec>> : h \in {0, 23, 24}, mi \in {0, 59}, sec \in {1, 60} }

ExpirationZones == { <<>>, <<0>>, <<1>>, <<-1>> }

\* values that are of no layout: "invalid-date", "", "2025-01-01 00:00:00",
\* "01/01/2025", "2025-1-1", "2025-01-01T", "2025-01-01T00:00:00z"
ExpirationJunk ==
  { <<"i", "n", "v", "a", "l", "i", "d", "-", "d", "a", "t", "e">>, <<>>,
    <<"2", "0", "2", "5", "-", "0", "1", "-", "0", "1", " ", "0", "0", ":", "0", "0", ":", "0", "0">>,
    <<"0", "1", "/", "0", "1", "/", "2", "0", "2", "5">>,
    <<"2", "0", "2", "5", "-", "1", "-", "1">>,
    <<"2", "0", "2", "5", "-", "0", "1", "-", "0", "1", "T">>,
    <<"2", "0", "2", "5", "-", "0", "1", "-", "0", "1", "T", "0", "0", ":", "0", "0", ":", "0", "0", "z">> }

ExpirationInputs ==
  { [s |-> RenderInstant(date, time, zone), date |-> date, time |-> time, zone |-> zone] :
      date \in ExpirationDates, time \in ExpirationTimes, zone \in ExpirationZones }
    \cup { [s |-> x, date |-> <<>>, time |-> <<>>, zone |-> <<>>] : x \in ExpirationJunk }

InitExpiration ==
  /\ arg \in ExpirationInputs
  /\ ret = <<>>
  /\ files = RulesFiles
  /\ MachineInit(MkConfig(FALSE, TRUE, FilterAll, "", 1))

\* parseExpirationTime(expires)
parseExpirationTimeCall ==
  /\ ret = <<>>
  /\ ret' = << parseExpirationTime(arg.s) >>
  /\ UNCHANGED <<arg, files, machineVars>>

NextExpiration == parseExpirationTimeCall

SpecExpiration == InitExpiration /\ [][NextExpiration]_vars

\* the date and the time of day of arg exist
ExistingInstant ==
  /\ arg.date[2] \in 1..12 /\ arg.date[3] \in 1..DaysIn(arg.date[2], arg.date[1])
  /\ arg.time # <<>> => arg.time[1] <= 23 /\ arg.time[2] <= 59
  /\ Len(arg.time) = 3 => arg.time[3] <= 59

\* the layout arg.s is written in, 0 when it is written in none of the four:
\* 1 RFC3339, 2 date-time with seconds and no zone, 3 date-time without
\* seconds, 4 date only
LayoutOf ==
  IF arg.date = <<>> THEN 0
  ELSE IF Len(arg.time) = 3 THEN (IF arg.zone # <<>> THEN 1 ELSE 2)
  ELSE IF arg.zone # <<>> THEN 0
  ELSE IF Len(arg.time) = 2 THEN 3 ELSE 4

\* the instant arg.s names when it is read as UTC unless it carries a zone,
\* with seconds 0 when it has none and as midnight when it has no time
NamedInstant ==
  Instant(arg.date[1], arg.date[2], arg.date[3],
          IF arg.time = <<>> THEN 0 ELSE arg.time[1],
          IF arg.time = <<>> THEN 0 ELSE arg.time[2],
          IF Len(arg.time) = 3 THEN arg.time[3] ELSE 0)
    - (IF arg.zone = <<>> THEN 0 ELSE arg.zone[1] * 3600)

\* C27: the expiration parser returns the instant of the one layout among
\* RFC3339, date-time with seconds and no zone, date-time without seconds
\* and date only that parses the value, reading a value without zone as
\* UTC and a date as midnight UTC; when no layout parses it, it returns an
\* error.
C27_FirstLayoutThatParses ==
  ret # <<>> =>
    IF LayoutOf # 0 /\ ExistingInstant
      THEN ~ret[1].err /\ ret[1].t = NamedInstant
      ELSE ret[1].err

\* "2025-01-01T23:59" is read as the instant 23:59:00 UTC
C27_Witness ==
  /\ arg.s = <<"2", "0", "2", "5", "-", "0", "1", "-", "0", "1", "T", "2", "3", ":", "5", "9">>
  /\ ret = << [err |-> FALSE, t |-> 86340] >>

\* ------------------------------------------------------------------------
\* The resources of a rule
\* ------------------------------------------------------------------------

\* the kinds of TestPluralize, two kinds of no special case and a kind that
\* is written as a plural
MatchKinds ==
  { "Pod", "Service", "Deployment", "StatefulSet", "DaemonSet", "ReplicaSet", "ConfigMap",
    "Secret", "PersistentVolumeClaim", "PersistentVolume", "Namespace", "Ingress",
    "NetworkPolicy", "CustomResource", "CronJob", "pods" }

MatchResources ==
  { "*", "Pod", "pods", "Pods", "deployments", "ingresses", "Ingresss", "networkpolicies",
    "CronJob", "cronjobs", "CronJobs", "podss" }

InitMatch ==
  /\ arg \in [resources : Lists(MatchResources), kind : MatchKinds,
              expression : {ExprTrue, ExprPr, [op |-> "lit", val |-> BoolVal(FALSE)]}]
  /\ ret = [plural |-> <<>>, matches |-> <<>>, rule |-> <<>>]
  /\ files = RulesFiles
  /\ MachineInit(MkConfig(FALSE, TRUE, FilterAll, "", 1))

\* pluralize(kind)
pluralizeCall ==
  /\ ret.plural = <<>>
  /\ ret' = [ret EXCEPT !.plural = << pluralize(arg.kind) >>]
  /\ UNCHANGED <<arg, files, machineVars>>

\* engine.resourceMatches(resources, kind)
resourceMatchesCall ==
  /\ ret.matches = <<>>
  /\ ret' = [ret EXCEPT !.matches = << resourceMatches(arg.resources, arg.kind) >>]
  /\ UNCHANGED <<arg, files, machineVars>>

\* engine.evaluateRule(rule, obj) for an object of the kind named pr-foo
evaluateRuleCall ==
  /\ ret.rule = <<>>
  /\ ret' = [ret EXCEPT !.rule =
               << evaluateRule([rule |-> Rule(<<"p", "r">>, arg.resources, arg.expression,
                                               <<"1", "s">>)],
                               Object("v1", arg.kind, "default",
                                      <<"p", "r", "-", "f", "o", "o">>, "u1", 0,
                                      Annotations(<<>>, <<>>), EmptyMap)) >>]
  /\ UNCHANGED <<arg, files, machineVars>>

NextMatch ==
  \/ pluralizeCall
  \/ resourceMatchesCall
  \/ evaluateRuleCall

SpecMatch == InitMatch /\ [][NextMatch]_vars

\* the thirteen kinds with a plural of their own, and their plurals
Plurals ==
  { <<"Pod", "pods">>, <<"Service", "services">>, <<"Deployment", "deployments">>,
    <<"StatefulSet", "statefulsets">>, <<"DaemonSet", "daemonsets">>,
    <<"ReplicaSet", "replicasets">>, <<"ConfigMap", "configmaps">>,
    <<"Secret", "secrets">>, <<"PersistentVolumeClaim", "persistentvolumeclaims">>,
    <<"PersistentVolume", "persistentvolumes">>, <<"Namespace", "namespaces">>,
    <<"Ingress", "ingresses">>, <<"NetworkPolicy", "networkpolicies">> }

\* the plural of kind: the one of the table, or kind with an s, unchanged in case
PluralOf(kind) ==
  IF \E p \in Plurals : p[1] = kind
    THEN (CHOOSE p \in Plurals : p[1] = kind)[2]
    ELSE kind \o "s"

\* some element of arg.resources is "*", the kind itself or its plural
ResourcesName ==
  \E r \in SeqToSet(arg.resources) : r = "*" \/ r = arg.kind \/ r = PluralOf(arg.kind)

RecordsAbortedDelete ==
  \E e \in BagToSet(events') :
    /\ e.reason = "DeletionFailed" /\ e.why = <<"canceled">>
    /\ Count(events', e) = Count(events, e) + 1

\* C29: once ctx is cancelled no errors counter goes up because of it: a
\* namespace list or an object list that the cancelled ctx aborts is not
\* counted as list_namespaces or process_resources, a Delete call it aborts
\* is not counted as delete_resource, and no cleanup error comes of it.
\* (With ctx cancelled every failure of a list call is an abort; discovery
\* takes no ctx.)
C29_CancellationCountsNoError ==
  [][ ctxDone =>
        /\ Errors("list_namespaces")' = Errors("list_namespaces")
        /\ Errors("process_resources")' = Errors("process_resources")
        /\ RecordsAbortedDelete => Errors("delete_resource")' = Errors("delete_resource")
        /\ Errors("cleanup")' # Errors("cleanup") =>
             run.pc = "cleanupDone" /\ run.err
    ]_vars

\* ------------------------------------------------------------------------
\* The ids of the loaded rules
\* ------------------------------------------------------------------------

\* the rules of the engines in es have pairwise distinct ids
DistinctIDs(es) ==
  \A k \in 1..Len(es) :
    \A i, j \in 1..Len(es[k].rules) :
      i # j => es[k].rules[i].rule.ID # es[k].rules[j].rule.ID

\* C30: every engine a successful load returns holds rules of pairwise
\* distinct ids: New and LoadFromFile do not load a list in which two rules
\* have the same id, and janitor.New holds no such engine.
C30_LoadedIdsDistinct ==
  /\ ret.new # <<>> /\ ~ret.new[1].err => DistinctIDs(ret.new[1].engine)
  /\ ret.load # <<>> /\ ~ret.load[1].err => DistinctIDs(ret.load[1].engine)
  /\ DistinctIDs(RuleEngine)

\* ------------------------------------------------------------------------
\* Errors of a rule's expression
\* ------------------------------------------------------------------------

\* the rules of arg.rules of the object's kind whose expression fails on it
Failing ==
  { i \in 1..Len(arg.rules) :
      /\ resourceMatches(arg.rules[i].Resources, arg.obj.kind)
      /\ Eval(arg.rules[i].Expression, arg.obj).err }

\* the rules of arg.rules of the object's kind whose expression evaluates,
\* without error, to a truthy value
Truthful ==
  { i \in 1..Len(arg.rules) :
      /\ resourceMatches(arg.rules[i].Resources, arg.obj.kind)
      /\ ~Eval(arg.rules[i].Expression, arg.obj).err
      /\ Truthy(Eval(arg.rules[i].Expression, arg.obj).v) }

\* C31: a runtime error of one rule's expression makes that rule a
\* non-match and nothing more: Evaluate returns no error, never returns the
\* rule that failed, and returns the first rule whose expression evaluates
\* to a truthy value, also when rules before it failed; it returns no rule
\* only when there is no such rule.
C31_EvalErrorIsNonMatch ==
  ret.eval # <<>> =>
    /\ DOMAIN ret.eval[1] = {"rule", "ttl"}
    /\ IF Truthful = {} THEN ret.eval[1].rule = <<>>
       ELSE ret.eval[1].rule = << arg.rules[Min(Truthful)] >>

\* the expression of the first rule has failed on the object and Evaluate
\* has returned the rule after it
C31_Witness ==
  /\ ret.eval # <<>>
  /\ 1 \in Failing /\ Truthful # {} /\ Min(Truthful) = 2
  /\ arg.rules[1].ID # arg.rules[2].ID
  /\ ret.eval[1].rule = << arg.rules[2] >>

\* ------------------------------------------------------------------------
\* The reason of a Decision
\* ------------------------------------------------------------------------

\* the phrases that name the trigger of a deletion
Triggers == {"TTL expired", "Expiration time reached", "Rule matched"}

\* C32: for every object, instant, rule engine and mode, the Decision has a
\* reason that is not empty exactly when its delete flag is true, and the
\* reason then begins with the phrase naming the trigger.
C32_ReasonIffDelete ==
  ret # <<>> =>
    /\ ret[1].reason # <<>> <=> ret[1].delete
    /\ ret[1].delete => ret[1].reason[1] \in Triggers

\* a Decision delete by a rule, with its reason, for an object without
\* annotations
C32_Witness ==
  /\ ret # <<>> /\ ret[1].delete /\ ret[1].reason[1] = "Rule matched"
  /\ arg.obj = Unannotated

\* ------------------------------------------------------------------------
\* resources_evaluated and the queue
\* ------------------------------------------------------------------------

\* the label values of resources_evaluated for the item the producer holds
NextLabels == <<"resources_evaluated", Head(run.res).gvr.Resource, ListNamespace(run)>>

\* a step and the counter: the counter moves only by one increment for the
\* item the producer is about to send, an item enters the queue only after
\* that increment and carries its resource and namespace, and a counted
\* item is left only by sending it
CountedAtEnqueue ==
  /\ metrics' # metrics /\ CounterTotal("resources_evaluated")' #
                             CounterTotal("resources_evaluated") =>
       /\ run.pc = "send" /\ ~run.marked /\ run'.marked
       /\ metrics' = Inc(metrics, NextLabels)
       /\ run'.items = run.items /\ WorkQueue' = WorkQueue
  /\ Len(WorkQueue') > Len(WorkQueue) =>
       /\ run.marked /\ metrics' = metrics
       /\ WorkQueue' = Append(WorkQueue, WorkQueue'[Len(WorkQueue')])
       /\ LET item == WorkQueue'[Len(WorkQueue')]
          IN  /\ <<"resources_evaluated", item.Resource.Resource, item.Namespace>> = NextLabels
              /\ item.Obj = Head(run.items)
       /\ run'.marked = FALSE
  /\ run.marked /\ ~run'.marked => Len(WorkQueue') > Len(WorkQueue) \/ WorkQueue' # WorkQueue
  /\ Len(WorkQueue') < Len(WorkQueue) =>
       /\ WorkQueue' = Tail(WorkQueue)
       /\ CounterTotal("resources_evaluated")' = CounterTotal("resources_evaluated")

\* C33: resources_evaluated is incremented exactly once for each WorkItem
\* that is enqueued, with the resource and the namespace of that item, and
\* never for an object that is not enqueued: an object that has been counted
\* is never left where it cannot be sent any more.  Items are dequeued only
\* from what was enqueued, and enqueued only after being counted.
C33_EvaluatedIffEnqueued ==
  /\ [][CountedAtEnqueue]_vars
  /\ [](run.pc = "send" /\ run.marked => ~Stuck)

\* ------------------------------------------------------------------------
\* The object an event refers to
\* ------------------------------------------------------------------------

\* the reference r names the object o as the object names itself
RefersTo(r, o) ==
  /\ r.APIVersion = o.apiVersion
  /\ r.Kind = o.kind
  /\ r.Namespace = o.namespace
  /\ r.Name = o.name
  /\ r.UID = o.uid

\* C34: every event a worker emits (DryRunDeletion, ResourceDeleted,
\* DeletionFailed) refers to an object of the cluster by that object's own
\* apiVersion, kind, namespace, name and uid.
C34_EventsReferenceTarget ==
  \A e \in BagToSet(events) :
    \E k \in 1..Len(ClusterObjects) : RefersTo(e.ref, ClusterObjects[k])

\* ------------------------------------------------------------------------
\* Cycles and cancellation
\* ------------------------------------------------------------------------

\* C35: once ctx is cancelled, Run starts no other cleanup cycle: no step
\* taken after the cancellation leaves the select for the discovery of a new
\* cycle, so no discovery, list or enqueue belongs to a cycle begun after it.
C35_NoCycleAfterCancel ==
  [][ctxDone /\ run.cycles >= 1 => run'.cycles = run.cycles /\ (run.pc = "select" => run'.pc # "discover")]_vars

\* ------------------------------------------------------------------------
\* The return of Run
\* ------------------------------------------------------------------------

\* C36: whenever Run has returned, with or without an error, in once or in
\* periodic mode, the queue is closed and every worker Run launched has
\* exited, so that no worker is left to call Delete or to emit an event.
C36_ReturnedMeansStopped ==
  run.pc = "returned" => closed /\ \A w \in Workers : wk[w].pc = "exited"

\* ------------------------------------------------------------------------
\* Delete calls over a periodic run
\* ------------------------------------------------------------------------

\* C37: over a whole run, whatever the interleaving of the cycles and the
\* workers, Delete is called at most once for an object (same resource,
\* namespace and name; the objects of the cluster keep their uid).
C37_OneDeletePerObject ==
  \A c \in BagToSet(deletes) : CopiesIn(c, deletes) <= 1

\* the uid of the object a Delete call names
UidOf(c) ==
  LET k == CHOOSE k \in 1..Len(ClusterObjects) :
             /\ ClusterObjects[k].name = c.Name
             /\ ClusterObjects[k].namespace = c.Namespace
  IN  ClusterObjects[k].uid

\* C37, amended: the Delete calls for one object never outnumber the cycles
\* Run has started: a cycle enqueues a listed object once and a worker calls
\* Delete at most once for an item it dequeues, but a later cycle lists the
\* object again as long as the platform holds it.
C37_OneDeletePerObjectAndCycle ==
  \A c \in BagToSet(deletes) : CopiesIn(c, deletes) <= run.cycles

\* a second Delete call for an object the first call has already deleted:
\* the second cycle listed it while the item of the first was still queued
C37_Witness ==
  \E c \in BagToSet(deletes) :
    /\ CopiesIn(c, deletes) = 2
    /\ run.cycles = 2
    /\ UidOf(c) \notin live

\* ------------------------------------------------------------------------
\* The rule that decides
\* ------------------------------------------------------------------------

\* the rules of the engine of arg that match the object of arg
EngineMatching ==
  IF arg.engine = <<>> THEN {}
  ELSE { i \in 1..Len(arg.engine[1].rules) : evaluateRule(arg.engine[1].rules[i], arg.obj) }

\* the rules of the engine of arg whose ttl the age of the object exceeds
EngineExpired ==
  IF arg.engine = <<>> THEN {}
  ELSE { i \in 1..Len(arg.engine[1].rules) :
           DurGT(Age(arg.obj, arg.now), arg.engine[1].rules[i].ttlDuration) }

\* C38: for an object without annotations the Decision depends on the first
\* matching rule only: when the age does not exceed the ttl of that rule the
\* Decision is keep, also when a later matching rule has a ttl the age
\* exceeds; when it does, the Decision is delete by that rule.
C38_FirstMatchingRuleDecides ==
  Decided /\ ~HasTTL /\ ~HasExpires /\ EngineMatching # {} =>
    LET first == Min(EngineMatching)
    IN  IF first \in EngineExpired
          THEN /\ ret[1].delete
               /\ ret[1].reason[1] = "Rule matched"
               /\ ret[1].reason[2] = arg.engine[1].rules[first].rule.ID
          ELSE ret[1] = Keep

\* kept by a first matching rule of one day although the second matching
\* rule has a ttl of 0s that the age exceeds
C38_Witness ==
  /\ Decided /\ ~HasTTL /\ ~HasExpires
  /\ EngineMatching = {1, 2}
  /\ 1 \notin EngineExpired /\ 2 \in EngineExpired
  /\ ret[1] = Keep

\* ------------------------------------------------------------------------
\* Backpressure
\* ------------------------------------------------------------------------

\* the positions of Run inside a cycle
InCycle == run.pc \in {"discover", "namespaces", "list", "send", "cleanupDone"}

\* the producer stands at a send the full queue does not take
SendBlocked == run.pc = "send" /\ run.marked /\ Len(WorkQueue) = QueueCap

\* worker w stands at its select with an item on the queue: the receive of
\* WorkerRecv is ready
CanReceive(w) == wk[w].pc = "idle" /\ WorkQueue # <<>>

====
